---- MODULE Spec2Model ----
(***************************************************************************)
(* Model of the mutual-fund analysis pipeline (package mfa).               *)
(*                                                                         *)
(* Part I   holdings aggregation and report building                       *)
(*          (analysis/analyzers/holdings/aggregator.py,                    *)
(*           analysis/analyzers/holdings/output_builder.py,                *)
(*           analysis/analyzers/utils/*.py)                                *)
(*                                                                         *)
(* Weights are integers counted in thousandths of a percent, so a weight   *)
(* of 5 stands for 0.005 %.  Sums are taken in the order the code takes    *)
(* them.  Python's None is the empty tuple None, a present value v is      *)
(* Some(v).                                                                *)
(***************************************************************************)
EXTENDS Integers, Sequences, FiniteSets, TLC

VARIABLES
    processed_funds,    \* aggregate_holdings: its argument
    params,             \* holdings_config.params
    aggregated_data,    \* AggregatedData returned by aggregate_holdings
    category_output,    \* dict returned by build_category_output
    stage,              \* position of the aggregation pipeline
    config,             \* MFAConfig held by the ConfigProvider
    request,            \* arguments of AnalysisOrchestrator.run_analysis
    pc,                 \* position of the run
    todo,               \* analyses_to_run not yet finished, in dict order
    executed,           \* analysis ids for which _run_single_analysis was entered
    error,              \* exception that left run_analysis, None if none
    requirements,       \* DataRequirement of the analysis being run
    fetch_pos,          \* position of the coordinator's loops: [group, url]
    scrape_results,     \* the coordinator's results list
    scraped_data_info,  \* dict returned by scrape_for_requirement
    events,             \* fetches, sleeps, reads and writes, in order
    scraped_files,      \* raw documents on disk (their paths)
    loaded_data,        \* load_files_from_data_source: per category the loaded documents
    cat_pos,            \* position of the loop of _process_all_categories
    output_paths,       \* output_paths of _process_all_categories
    summary,            \* summary of the analysis being run
    reports,            \* analysis reports on disk: path -> content
    results,            \* AnalysisResult of every completed analysis
    fetched_reports,    \* the reports on disk when an analysis-only run began
    raw_text,           \* argument of a call of a text function
    name_results,       \* results of normalize_company_name applied again and again
    parse_result,       \* outcome of a call of a parser: [parser, raised, value]
    raw_documents,      \* raw documents given to a data processor
    portfolio_funds,    \* outcome of PortfolioDataProcessor.process_fund_jsons
    portfolio_output    \* dict returned by PortfolioOutputBuilder.build_output

aggVars == <<processed_funds, aggregated_data, category_output, stage>>

runVars == <<config, request, pc, todo, executed, error, requirements, fetch_pos,
             scrape_results, scraped_data_info, events, scraped_files, loaded_data,
             cat_pos, output_paths, summary, reports, results, fetched_reports>>

textVars == <<raw_text, name_results, parse_result>>

docVars == <<raw_documents, portfolio_funds, portfolio_output>>

vars == <<raw_text, name_results, parse_result,
          raw_documents, portfolio_funds, portfolio_output,
          processed_funds, params, aggregated_data, category_output, stage,
          config, request, pc, todo, executed, error, requirements, fetch_pos,
          scrape_results, scraped_data_info, events, scraped_files, loaded_data,
          cat_pos, output_paths, summary, reports, results, fetched_reports>>

----------------------------------------------------------------------------
(* Bounds of the model *)

MaxFunds == 2          \* processed funds per category
MaxHoldings == 2       \* holdings per processed fund
MaxConfigInt == 1      \* largest integer tried for a configured limit
WeightStep == 5        \* difference of weight between two ranks
NumCategories == 2     \* categories of the holdings analysis
UrlsPerCategory == 2   \* fund URLs per category
NumPortfolioFunds == 1 \* funds of the portfolio analysis
MaxFetchFailures == 2  \* scrape calls of one run that do not succeed
MaxFragments == 3      \* fragments of a text given to a text function
MaxDocuments == 2      \* raw documents given to a data processor
MaxListedUrls == 2     \* URLs a configuration lists for a category or a portfolio

CompanyNames == {<<"X">>, <<"Y">>}
FundNames == {"Fund A", "Unknown Fund"}   \* "Unknown Fund" is the name given to a document without one
AumValues == {"N/A"}

(* Program constants *)
DefaultMaxSamples == 5
DefaultMaxCompanies == 100

----------------------------------------------------------------------------
(* Generic helpers *)

None == << >>
Some(v) == <<v>>
IsInt(opt) == Len(opt) = 1
Value(opt) == opt[1]

SeqRange(s) == {s[i] : i \in 1..Len(s)}

SeqsUpTo(S, n) == UNION {[1..k -> S] : k \in 0..n}

NonEmptySeqsUpTo(S, n) == UNION {[1..k -> S] : k \in 1..n}

Front(s) == SubSeq(s, 1, Len(s) - 1)

Last(s) == s[Len(s)]

Min(a, b) == IF a < b THEN a ELSE b

\* F(value), with value computed once
Let(value, F(_)) == CHOOSE result \in {F(v) : v \in {value}} : TRUE

RECURSIVE SumSeq(_)
SumSeq(s) == IF s = << >> THEN 0 ELSE Head(s) + SumSeq(Tail(s))

----------------------------------------------------------------------------
(* AggregatorUtils *)

calculate_average_weight(total_weight, fund_count) ==
    \* total_weight / fund_count kept as an exact fraction
    IF fund_count > 0 THEN [num |-> total_weight, den |-> fund_count]
                      ELSE [num |-> 0, den |-> 1]

limit_sample_funds(sample_funds, max_samples) ==
    IF max_samples = None \/ Value(max_samples) <= 0
        THEN sample_funds
        ELSE SubSeq(sample_funds, 1, Min(Len(sample_funds), Value(max_samples)))

----------------------------------------------------------------------------
(* HoldingsAggregator.aggregate_holdings *)

ResolveMaxSamples(max_samples_config) ==
    LET max_samples == IF IsInt(max_samples_config) THEN Value(max_samples_config)
                                                    ELSE DefaultMaxSamples
    IN IF max_samples < 0 THEN 0 ELSE max_samples

HoldingCompanies(funds) ==
    UNION {{fund.holdings[j].company_name : j \in 1..Len(fund.holdings)} :
              fund \in SeqRange(funds)}

TrackFund(fund_set, fund_key) == fund_set \cup {fund_key}

AddWeight_assign(total, weight) == weight

AddWeight(total, weight) == total + weight

AppendSample_unguarded(examples, fund_key, max_samples) == Append(examples, fund_key)

AppendSample(examples, fund_key, max_samples) ==
    IF Len(examples) < max_samples THEN Append(examples, fund_key) ELSE examples

RecordInsertion(order, key) ==
    \* position of a key in a dict: the place of its first insertion
    IF key \in SeqRange(order) THEN order ELSE Append(order, key)

RECURSIVE FoldHoldings(_, _, _, _)
FoldHoldings(st, fund_key, holdings, max_samples) ==
    IF holdings = << >> THEN st
    ELSE LET holding == Head(holdings)
             company_name == holding.company_name
             weight == holding.allocation_percentage
             st1 == [st EXCEPT
                       !.company_order = RecordInsertion(@, company_name),
                       !.company_to_funds[company_name] = TrackFund(@, fund_key),
                       !.company_total_weights[company_name] = AddWeight(@, weight),
                       !.company_examples[company_name] =
                            AppendSample(@, fund_key, max_samples)]
         IN FoldHoldings(st1, fund_key, Tail(holdings), max_samples)

RECURSIVE FoldFunds(_, _, _)
FoldFunds(st, funds, max_samples) ==
    IF funds = << >> THEN st
    ELSE LET fund == Head(funds)
             fund_key == fund.name
             info == [name |-> fund.name, aum |-> fund.aum,
                      holdings_count |-> Len(fund.holdings)]
             st1 == [st EXCEPT
                       !.funds_order = RecordInsertion(@, fund_key),
                       !.funds_info = (fund_key :> info) @@ @]
         IN FoldFunds(FoldHoldings(st1, fund_key, fund.holdings, max_samples),
                      Tail(funds), max_samples)

aggregate_holdings(funds, max_samples_config) ==
    LET max_samples == ResolveMaxSamples(max_samples_config)
        D == HoldingCompanies(funds)
        st0 == [company_order |-> << >>,
                company_to_funds |-> [c \in D |-> {}],
                company_total_weights |-> [c \in D |-> 0],
                company_examples |-> [c \in D |-> << >>],
                funds_order |-> << >>,
                funds_info |-> << >>]
        st == FoldFunds(st0, funds, max_samples)
        CompanyData(c) ==
            LET fund_count == Cardinality(st.company_to_funds[c])
                total_weight == st.company_total_weights[c]
            IN [name |-> c,
                fund_count |-> fund_count,
                total_weight |-> total_weight,
                average_weight |-> calculate_average_weight(total_weight, fund_count),
                sample_funds |-> limit_sample_funds(st.company_examples[c],
                                                    Some(max_samples))]
    IN [companies |-> [c \in D |-> CompanyData(c)],
        company_order |-> st.company_order,
        funds_order |-> st.funds_order,
        funds_info |-> st.funds_info]

----------------------------------------------------------------------------
(* OutputBuilderUtils *)

RoundHalfEven(n, d) ==
    \* round(n / d) to the nearest integer, ties to even (Python's round)
    LET q == n \div d
        r == n % d
    IN IF 2 * r < d THEN q
       ELSE IF 2 * r > d THEN q + 1
       ELSE IF q % 2 = 0 THEN q ELSE q + 1

Round2(weight) ==
    \* round(total_weight, 2): two decimals are ten thousandths
    RoundHalfEven(weight, 10) * 10

Round3(avg) ==
    \* round(average_weight, 3): three decimals are single thousandths
    RoundHalfEven(avg.num, avg.den)

SortKey(c, sort_type) ==
    IF sort_type = "fund_count" THEN <<0 - c.fund_count, 0 - c.total_weight>>
    ELSE IF sort_type = "total_weight" THEN <<0 - c.total_weight, 0 - c.fund_count>>
    ELSE <<0 - c.total_weight>>

RECURSIVE TupleLess(_, _)
TupleLess(a, b) ==
    \* Python's ordering of tuples of numbers
    IF a = << >> THEN b # << >>
    ELSE IF b = << >> THEN FALSE
    ELSE IF Head(a) # Head(b) THEN Head(a) < Head(b)
    ELSE TupleLess(Tail(a), Tail(b))

StableInsert(sorted, x, sort_type) ==
    \* x goes after every element whose key is not greater than its own
    LET pos == Cardinality({i \in 1..Len(sorted) :
                   ~TupleLess(SortKey(x, sort_type), SortKey(sorted[i], sort_type))})
    IN SubSeq(sorted, 1, pos) \o <<x>> \o SubSeq(sorted, pos + 1, Len(sorted))

RECURSIVE StableSort(_, _)
StableSort(companies, sort_type) ==
    \* sorted(companies, key=...): stable, ascending by key
    IF companies = << >> THEN << >>
    ELSE StableInsert(StableSort(Front(companies), sort_type), Last(companies), sort_type)

sort_companies_by_criteria(companies, sort_type) == StableSort(companies, sort_type)

IsInAllFunds_any(c, total_fund_count) == c.fund_count <= total_fund_count

IsInAllFunds(c, total_fund_count) == c.fund_count = total_fund_count

find_companies_in_all_funds(companies, total_fund_count) ==
    LET InAll(c) == IsInAllFunds(c, total_fund_count)
        companies_in_all == SelectSeq(companies, InAll)
    IN StableSort(companies_in_all, "weight_then_count")

limit_results_unguarded(items, max_items) ==
    IF max_items = None THEN items
    ELSE SubSeq(items, 1, Min(Len(items), IF Value(max_items) < 0 THEN 0 ELSE Value(max_items)))

limit_results(items, max_items) ==
    IF max_items = None \/ Value(max_items) <= 0
        THEN items
        ELSE SubSeq(items, 1, Min(Len(items), Value(max_items)))

extract_max_companies_config(max_companies_config) ==
    LET max_companies == IF IsInt(max_companies_config) THEN Value(max_companies_config)
                                                        ELSE DefaultMaxCompanies
    IN IF max_companies < 0 THEN 0 ELSE max_companies

extract_fund_references(aggregated) ==
    [i \in 1..Len(aggregated.funds_order) |->
        [name |-> aggregated.funds_info[aggregated.funds_order[i]].name,
         aum |-> aggregated.funds_info[aggregated.funds_order[i]].aum]]

format_company_for_dashboard(c) ==
    [name |-> c.name,
     company |-> c.name,
     fund_count |-> c.fund_count,
     total_weight |-> Round2(c.total_weight),
     avg_weight |-> Round3(c.average_weight),
     sample_funds |-> c.sample_funds]

----------------------------------------------------------------------------
(* HoldingsOutputBuilder.build_category_output *)

FormatAll(companies) == [i \in 1..Len(companies) |-> format_company_for_dashboard(companies[i])]

build_category_output(aggregated, max_companies_config) ==
    LET max_companies == extract_max_companies_config(max_companies_config)
        funds == extract_fund_references(aggregated)
        company_values == [i \in 1..Len(aggregated.company_order) |->
                              aggregated.companies[aggregated.company_order[i]]]
        by_fund_count == sort_companies_by_criteria(company_values, "fund_count")
        by_total_weight == sort_companies_by_criteria(company_values, "total_weight")
        common_in_all == find_companies_in_all_funds(company_values, Len(funds))
    IN [total_files |-> Len(funds),
        total_funds |-> Len(funds),
        funds |-> funds,
        unique_companies |-> Cardinality(DOMAIN aggregated.companies),
        top_by_fund_count |-> FormatAll(limit_results(by_fund_count, Some(max_companies))),
        top_by_total_weight |-> FormatAll(limit_results(by_total_weight, Some(max_companies))),
        common_in_all_funds |-> FormatAll(limit_results(common_in_all, Some(max_companies)))]

----------------------------------------------------------------------------
(* Part II  raw documents and HoldingsDataProcessor                         *)
(*          (analysis/analyzers/holdings/data_processor.py)                 *)
(*                                                                          *)
(* A text that the code inspects character by character is a sequence of    *)
(* one-character strings.                                                   *)

Whitespace == {" "}

Lowers == <<"a", "b", "c", "d", "e", "f", "g", "h", "i", "j", "k", "l", "m",
            "n", "o", "p", "q", "r", "s", "t", "u", "v", "w", "x", "y", "z">>

Uppers == <<"A", "B", "C", "D", "E", "F", "G", "H", "I", "J", "K", "L", "M",
            "N", "O", "P", "Q", "R", "S", "T", "U", "V", "W", "X", "Y", "Z">>

Digits == <<"0", "1", "2", "3", "4", "5", "6", "7", "8", "9">>

ToUpper(ch) ==
    IF \E i \in 1..Len(Lowers) : Lowers[i] = ch
        THEN Uppers[CHOOSE i \in 1..Len(Lowers) : Lowers[i] = ch]
        ELSE ch

ToLower(ch) ==
    IF \E i \in 1..Len(Uppers) : Uppers[i] = ch
        THEN Lowers[CHOOSE i \in 1..Len(Uppers) : Uppers[i] = ch]
        ELSE ch

Upper(str) == [i \in 1..Len(str) |-> ToUpper(str[i])]

Lower(str) == [i \in 1..Len(str) |-> ToLower(str[i])]

RECURSIVE LStrip(_)
LStrip(str) == IF str # << >> /\ Head(str) \in Whitespace THEN LStrip(Tail(str)) ELSE str

RECURSIVE RStrip(_)
RStrip(str) == IF str # << >> /\ Last(str) \in Whitespace THEN RStrip(Front(str)) ELSE str

Strip(str) == LStrip(RStrip(str))

EndsWith(str, suffix) ==
    /\ Len(str) >= Len(suffix)
    /\ SubSeq(str, Len(str) - Len(suffix) + 1, Len(str)) = suffix

\* Python's  sub in str
Contains(str, sub) ==
    \E i \in 0..(Len(str) - Len(sub)) : SubSeq(str, i + 1, i + Len(sub)) = sub

\* _SUFFIX_PATTERNS: each pattern is \s+ word \.? (\s+ word \.?)* \s* $, case
\* insensitive; a pattern is the sequence of its words (in lower case) with
\* the flag telling whether the word may be followed by a dot.
SuffixWord(word, dot) == [word |-> word, dot |-> dot]

SUFFIX_PATTERNS ==
    << <<SuffixWord(<<"l", "i", "m", "i", "t", "e", "d">>, FALSE)>>,
       <<SuffixWord(<<"l", "t", "d">>, TRUE)>>,
       <<SuffixWord(<<"p", "v", "t">>, TRUE)>>,
       <<SuffixWord(<<"p", "r", "i", "v", "a", "t", "e">>, FALSE),
         SuffixWord(<<"l", "i", "m", "i", "t", "e", "d">>, FALSE)>>,
       <<SuffixWord(<<"p", "v", "t">>, TRUE), SuffixWord(<<"l", "t", "d">>, TRUE)>>,
       <<SuffixWord(<<"i", "n", "c">>, TRUE)>>,
       <<SuffixWord(<<"c", "o", "r", "p", "o", "r", "a", "t", "i", "o", "n">>, FALSE)>>,
       <<SuffixWord(<<"c", "o", "r", "p">>, TRUE)>>,
       <<SuffixWord(<<"c", "o", "m", "p", "a", "n", "y">>, FALSE)>>,
       <<SuffixWord(<<"c", "o">>, TRUE)>> >>

NoMatch == <<"no match">>

\* what is left of str in front of a match of  \s+ word \.?  ending at the
\* end of str, or NoMatch
MatchWordAtEnd(str, sw) ==
    LET body == IF sw.dot /\ str # << >> /\ Last(str) = "." THEN Front(str) ELSE str
    IN IF ~EndsWith(Lower(body), sw.word) THEN NoMatch
       ELSE LET before == SubSeq(body, 1, Len(body) - Len(sw.word))
                rest == RStrip(before)
            IN IF Len(rest) < Len(before) THEN rest ELSE NoMatch

RECURSIVE MatchWordsAtEnd(_, _)
MatchWordsAtEnd(str, words) ==
    IF words = << >> THEN str
    ELSE LET rest == MatchWordAtEnd(str, Last(words))
         IN IF rest = NoMatch THEN NoMatch ELSE MatchWordsAtEnd(rest, Front(words))

\* pattern.sub("", str)
SubSuffixPattern(str, pattern) ==
    LET rest == MatchWordsAtEnd(RStrip(str), pattern)
    IN IF rest = NoMatch THEN str ELSE rest

RECURSIVE ApplySuffixPatterns(_, _)
ApplySuffixPatterns(str, patterns) ==
    IF patterns = << >> THEN str
    ELSE Let(SubSuffixPattern(str, Head(patterns)),
             LAMBDA normalized : ApplySuffixPatterns(normalized, Tail(patterns)))

\* _TRAILING_DOTS_SPACES_PATTERN.sub("", str)
RECURSIVE StripTrailingDotsSpaces(_)
StripTrailingDotsSpaces(str) ==
    IF str # << >> /\ Last(str) \in Whitespace \cup {"."}
        THEN StripTrailingDotsSpaces(Front(str))
        ELSE str

normalize_company_name(company_name) ==
    IF company_name = << >> THEN company_name
    ELSE Let(StripTrailingDotsSpaces(ApplySuffixPatterns(Strip(company_name),
                                                         SUFFIX_PATTERNS)),
             LAMBDA normalized :
                 IF Strip(normalized) = << >> THEN company_name ELSE Strip(normalized))

\* Python's float(text) on texts made of a sign, digits and a dot; any other
\* text raises ValueError.  The value is in thousandths.
DigitValue(ch) == (CHOOSE i \in 1..Len(Digits) : Digits[i] = ch) - 1

IsDigits(str) == \A i \in 1..Len(str) : str[i] \in SeqRange(Digits)

RECURSIVE DigitsValue(_)
DigitsValue(str) ==
    IF str = << >> THEN 0 ELSE DigitsValue(Front(str)) * 10 + DigitValue(Last(str))

ParseFloat(text) ==
    LET signed == text # << >> /\ Head(text) \in {"+", "-"}
        body == IF signed THEN Tail(text) ELSE text
        dots == {i \in 1..Len(body) : body[i] = "."}
        dot == IF dots = {} THEN Len(body) + 1 ELSE CHOOSE i \in dots : TRUE
        whole == SubSeq(body, 1, dot - 1)
        frac == SubSeq(body, dot + 1, Len(body))
        frac3 == SubSeq(frac \o <<"0", "0", "0">>, 1, 3)
        ok == /\ Cardinality(dots) <= 1
              /\ IsDigits(whole) /\ IsDigits(frac)
              /\ Len(whole) + Len(frac) >= 1
        magnitude == DigitsValue(whole) * 1000 + DigitsValue(frac3)
    IN IF ok THEN [ok |-> TRUE,
                   value |-> IF signed /\ Head(text) = "-" THEN 0 - magnitude ELSE magnitude]
             ELSE [ok |-> FALSE, value |-> 0]

\* _PERCENT_WS_PATTERN.sub("", str)
RemovePercentAndSpaces(str) ==
    LET Keep(ch) == ch \notin Whitespace \cup {"%"} IN SelectSeq(str, Keep)

parse_percentage(percentage_str) ==
    LET parsed == ParseFloat(RemovePercentAndSpaces(percentage_str))
    IN IF parsed.ok THEN parsed.value ELSE 0

\* outcome of a call: the value returned, or an exception that leaves the call
Returns(v) == [raised |-> FALSE, value |-> v]

Raises == [raised |-> TRUE, value |-> 0]

\* float(text) inside try/except (ValueError, TypeError): 0.0 on failure
FloatOrZero(text) ==
    Let(ParseFloat(text), LAMBDA number : IF number.ok THEN number.value ELSE 0)

\* the characters of str from index i on that belong to class, up to the
\* first one that does not: a greedy character-class repetition
RECURSIVE RunFrom(_, _, _)
RunFrom(str, i, class) ==
    IF i <= Len(str) /\ str[i] \in class
        THEN <<str[i]>> \o RunFrom(str, i + 1, class)
        ELSE << >>

\* index of the leftmost character of str in class, 0 if there is none
FirstIndexIn(str, class) ==
    LET found == {i \in 1..Len(str) : str[i] \in class}
    IN IF found = {} THEN 0 ELSE CHOOSE i \in found : \A j \in found : i <= j

\* re.search(r"\d{1,3}(?:\.\d+)?", str): None or the matched text
SearchPercentNumber(str) ==
    LET start == FirstIndexIn(str, SeqRange(Digits))
        digits == RunFrom(str, start, SeqRange(Digits))
        whole == SubSeq(digits, 1, Min(3, Len(digits)))
        after == start + Len(whole)
        frac == IF after <= Len(str) /\ str[after] = "."
                    THEN RunFrom(str, after + 1, SeqRange(Digits))
                    ELSE << >>
    IN IF start = 0 THEN None
       ELSE Some(IF frac # << >> THEN whole \o <<".">> \o frac ELSE whole)

\* re.search(r"[\d,.]+(?:\.\d+)?", str): None or the matched text; the greedy
\* class takes every dot, so the optional group matches nothing
SearchNumericRun(str) ==
    LET class == SeqRange(Digits) \cup {",", "."}
        start == FirstIndexIn(str, class)
    IN IF start = 0 THEN None ELSE Some(RunFrom(str, start, class))

\* match.group(0).replace(",", "")
RemoveCommas(str) ==
    LET Keep(ch) == ch # "," IN SelectSeq(str, Keep)

\* DataProcessorUtils.parse_percentage; the value is in thousandths
DataProcessorUtils_parse_percentage(percentage_str) ==
    IF percentage_str = << >> THEN Returns(0)
    ELSE Returns(FloatOrZero(RemovePercentAndSpaces(percentage_str)))

\* DataProcessorUtils.parse_percentage_as_decimal; the value is the number
\* matched, in thousandths, its quotient by 100 being the fraction returned
parse_percentage_as_decimal(percentage_str) ==
    IF percentage_str = << >> THEN Returns(0)
    ELSE Let(SearchPercentNumber(percentage_str), LAMBDA match :
             IF match = None THEN Returns(0) ELSE Returns(FloatOrZero(Value(match))))

\* DataProcessorUtils.parse_currency; the value is in thousandths
parse_currency(currency_str) ==
    IF currency_str = << >> THEN Returns(0)
    ELSE Let(SearchNumericRun(currency_str), LAMBDA match :
             IF match = None THEN Returns(0)
             ELSE Returns(FloatOrZero(RemoveCommas(Value(match)))))

\* PortfolioDataProcessor._parse_nav: float() is called outside any try, so
\* its ValueError leaves the call; the value is in thousandths
parse_nav(nav_text) ==
    IF nav_text = << >> THEN Returns(0)
    ELSE Let(SearchNumericRun(nav_text), LAMBDA match :
             IF match = None THEN Returns(0)
             ELSE Let(ParseFloat(RemoveCommas(Value(match))), LAMBDA number :
                      IF number.ok THEN Returns(number.value) ELSE Raises))

\* PortfolioDataProcessor._parse_percent: the text matched is always a number
parse_percent(pct_text) ==
    IF pct_text = << >> THEN Returns(0)
    ELSE Let(SearchPercentNumber(pct_text), LAMBDA match :
             IF match = None THEN Returns(0)
             ELSE Let(ParseFloat(Value(match)), LAMBDA number :
                      IF number.ok THEN Returns(number.value) ELSE Raises))

is_excluded_holding(company_name, excluded_holdings) ==
    \E excluded \in excluded_holdings : Contains(Upper(company_name), Upper(excluded))

\* the holdings loop of _process_single_fund: a kept holding is appended
RECURSIVE process_holdings(_, _)
process_holdings(top_holdings, excluded_holdings) ==
    IF top_holdings = << >> THEN << >>
    ELSE Let(Strip(Head(top_holdings).company_name), LAMBDA company_name :
         Let(parse_percentage(Head(top_holdings).allocation_percentage), LAMBDA allocation :
         Let(process_holdings(Tail(top_holdings), excluded_holdings), LAMBDA rest :
             IF \/ is_excluded_holding(company_name, excluded_holdings)
                \/ company_name = << >>
                \/ allocation <= 0
                THEN rest
                ELSE <<[company_name |-> normalize_company_name(company_name),
                        allocation_percentage |-> allocation]>> \o rest)))

\* an entry of top_holdings is a JSON object, or another JSON value (a string)
\* on which holding_data.get raises AttributeError
NotAnObject == [json_string |-> "n/a"]

IsObject(holding_data) == "company_name" \in DOMAIN holding_data

process_single_fund_keep_empty(fund_json, excluded_holdings) ==
    LET fund_info == fund_json.data.fund_info
        top_holdings == fund_json.data.top_holdings
        fund_name == IF fund_info.fund_name = None THEN "Unknown Fund"
                     ELSE Value(fund_info.fund_name)
    IN IF \E j \in 1..Len(top_holdings) : ~IsObject(top_holdings[j]) THEN None
       ELSE Some([name |-> fund_name, aum |-> fund_info.aum,
                  holdings |-> process_holdings(top_holdings, excluded_holdings)])

\* _process_single_fund: None when no holding is kept, and None when the
\* try block raises, which it does on an entry that is not an object
process_single_fund(fund_json, excluded_holdings) ==
    LET fund_info == fund_json.data.fund_info
        top_holdings == fund_json.data.top_holdings
        fund_name == IF fund_info.fund_name = None THEN "Unknown Fund"
                     ELSE Value(fund_info.fund_name)
    IN IF \E j \in 1..Len(top_holdings) : ~IsObject(top_holdings[j]) THEN None
       ELSE Let(process_holdings(top_holdings, excluded_holdings),
                LAMBDA processed_holdings :
                    IF processed_holdings # << >>
                       THEN Some([name |-> fund_name, aum |-> fund_info.aum,
                                  holdings |-> processed_holdings])
                       ELSE None)

RECURSIVE process_fund_jsons(_, _)
process_fund_jsons(fund_jsons, excluded_holdings) ==
    IF fund_jsons = << >> THEN << >>
    ELSE Let(process_single_fund(Head(fund_jsons), excluded_holdings), LAMBDA processed_fund :
         Let(process_fund_jsons(Tail(fund_jsons), excluded_holdings), LAMBDA rest :
             IF processed_fund # None THEN <<Value(processed_fund)>> \o rest ELSE rest))

----------------------------------------------------------------------------
(* PortfolioDataProcessor *)

\* the holdings loop of PortfolioDataProcessor.process_fund_jsons, which has
\* no try: h.get on an entry that is not an object raises AttributeError.
\* fraction is the percentage in thousandths, amount the product of the
\* fund value by it.
RECURSIVE portfolio_process_holdings(_, _)
portfolio_process_holdings(holdings, fund_value) ==
    IF holdings = << >> THEN Returns(<< >>)
    ELSE IF ~IsObject(Head(holdings)) THEN Raises
    ELSE Let(parse_percent(Head(holdings).allocation_percentage), LAMBDA fraction :
         Let(portfolio_process_holdings(Tail(holdings), fund_value), LAMBDA rest :
             IF fraction.raised \/ rest.raised THEN Raises
             ELSE IF Head(holdings).company_name = << >> THEN rest
             ELSE Returns(<<[company_name |-> Head(holdings).company_name,
                             fraction |-> fraction.value,
                             amount |-> fund_value * fraction.value]>> \o rest.value)))

\* one turn of the loop over fund_documents; nav and fund_value in thousandths
portfolio_process_document(doc, url_to_units) ==
    LET fund_info == doc.data.fund_info
        url == doc.source_url
        units == IF url \in DOMAIN url_to_units THEN url_to_units[url] ELSE 0
    IN Let(parse_nav(fund_info.current_nav), LAMBDA nav :
           IF nav.raised THEN Raises
           ELSE Let(IF nav.value > 0 THEN units * nav.value ELSE units * 1000,
                    LAMBDA fund_value :
                Let(portfolio_process_holdings(doc.data.top_holdings, fund_value),
                    LAMBDA processed_holdings :
                        IF processed_holdings.raised THEN Raises
                        ELSE Returns([url |-> url,
                                      fund_name |-> fund_info.fund_name,
                                      units |-> units,
                                      nav |-> nav.value,
                                      fund_value |-> fund_value,
                                      holdings |-> processed_holdings.value]))))

\* PortfolioDataProcessor.process_fund_jsons: an exception of one document
\* leaves the loop and the call
RECURSIVE portfolio_process_fund_jsons(_, _)
portfolio_process_fund_jsons(fund_documents, url_to_units) ==
    IF fund_documents = << >> THEN Returns(<< >>)
    ELSE Let(portfolio_process_document(Head(fund_documents), url_to_units), LAMBDA fund :
             IF fund.raised THEN Raises
             ELSE Let(portfolio_process_fund_jsons(Tail(fund_documents), url_to_units),
                      LAMBDA rest :
                          IF rest.raised THEN Raises
                          ELSE Returns(<<fund.value>> \o rest.value)))

(* PortfolioAggregator *)

\* PortfolioAggregator._normalize_name: the patterns and the steps of
\* normalize_company_name
normalize_name(name) ==
    IF name = << >> THEN name
    ELSE Let(StripTrailingDotsSpaces(ApplySuffixPatterns(Strip(name), SUFFIX_PATTERNS)),
             LAMBDA normalized :
                 IF Strip(normalized) = << >> THEN name ELSE Strip(normalized))

\* company_to_amount[normalized_name] += amt and the append to company_sources;
\* the companies are kept in the order of their first insertion
AddAmount(companies, normalized_name, fund_name, amt) ==
    LET source == [fund_name |-> fund_name, contribution |-> amt]
    IN IF \E i \in 1..Len(companies) : companies[i].company_name = normalized_name
          THEN [i \in 1..Len(companies) |->
                   IF companies[i].company_name = normalized_name
                      THEN [companies[i] EXCEPT !.amount = @ + amt,
                                                !.sources = Append(@, source)]
                      ELSE companies[i]]
          ELSE Append(companies, [company_name |-> normalized_name, amount |-> amt,
                                  sources |-> <<source>>])

\* the loop over the holdings of one fund
RECURSIVE AggregateFundHoldings(_, _, _, _)
AggregateFundHoldings(companies, holdings, fund_name, exclude_norm) ==
    IF holdings = << >> THEN companies
    ELSE Let(Strip(Head(holdings).company_name), LAMBDA name :
         Let(normalize_name(name), LAMBDA normalized_name :
             AggregateFundHoldings(
                 IF name = << >> \/ normalized_name \in exclude_norm
                    THEN companies
                    ELSE AddAmount(companies, normalized_name, fund_name,
                                   Head(holdings).amount),
                 Tail(holdings), fund_name, exclude_norm)))

\* the loop over processed_funds
RECURSIVE AggregateFunds(_, _, _)
AggregateFunds(companies, processed, exclude_norm) ==
    IF processed = << >> THEN companies
    ELSE AggregateFunds(AggregateFundHoldings(companies, Head(processed).holdings,
                                              Head(processed).fund_name, exclude_norm),
                        Tail(processed), exclude_norm)

\* sorted(company_to_amount.items(), key=lambda kv: kv[1], reverse=True):
\* stable, so companies of equal amount keep their order
RECURSIVE SortByAmountDesc(_)
SortByAmountDesc(companies) ==
    IF companies = << >> THEN << >>
    ELSE LET sorted == SortByAmountDesc(Front(companies))
             x == Last(companies)
             pos == Cardinality({i \in 1..Len(sorted) : sorted[i].amount >= x.amount})
         IN SubSeq(sorted, 1, pos) \o <<x>> \o SubSeq(sorted, pos + 1, Len(sorted))

\* PortfolioAggregator.aggregate_portfolio; company_amounts carries the
\* company_sources of each company
aggregate_portfolio(processed, exclude) ==
    LET exclude_norm == {normalize_name(x) : x \in exclude}
    IN [total_value |-> SumSeq([k \in 1..Len(processed) |-> processed[k].fund_value]),
        company_amounts |-> SortByAmountDesc(AggregateFunds(<< >>, processed, exclude_norm))]

(* PortfolioOutputBuilder *)

\* int(params.chart_top_n or 20)
DefaultChartTopN == 20

\* OutputBuilderUtils.format_percentage, decimal_places = 2, of a value of
\* numerator / denominator hundredths of a percent: the result in hundredths
format_percentage_truncated(numerator, denominator) ==
    numerator \div denominator

format_percentage(numerator, denominator) ==
    RoundHalfEven(numerator, denominator)

\* an amount is in 10^-8 currency units (a fund value in thousandths times a
\* fraction in 10^-5) and total_value in thousandths: amount / total_value
\* * 100.0 is amount / (AmountsPerHundredth * total_value) hundredths of a
\* percent
AmountsPerHundredth == 10

\* OutputBuilderUtils.format_currency_value: int(round(value)) of a value of
\* numerator / denominator currency units
format_currency_value(numerator, denominator) ==
    RoundHalfEven(numerator, denominator)

\* percentages of the amount allocated to the companies instead of
\* total_value
_build_company_allocations_of_allocated(company_amounts, total_value) ==
    LET allocated == SumSeq([k \in 1..Len(company_amounts) |-> company_amounts[k].amount])
    IN [k \in 1..Len(company_amounts) |->
           [company_name |-> company_amounts[k].company_name,
            amount |-> format_currency_value(company_amounts[k].amount, 100000000),
            percentage |-> IF allocated > 0
                              THEN format_percentage(company_amounts[k].amount,
                                                     allocated \div 10000)
                              ELSE 0,
            from_funds |-> company_amounts[k].sources]]

\* _build_company_allocations: pct = (amount / total_value) * 100.0 if
\* total_value > 0 else 0.0, then format_percentage(pct)
_build_company_allocations(company_amounts, total_value) ==
    [k \in 1..Len(company_amounts) |->
        [company_name |-> company_amounts[k].company_name,
         amount |-> format_currency_value(company_amounts[k].amount, 100000000),
         percentage |-> IF total_value > 0
                           THEN format_percentage(company_amounts[k].amount,
                                                  AmountsPerHundredth * total_value)
                           ELSE 0,
         from_funds |-> company_amounts[k].sources]]

\* PortfolioOutputBuilder.build_output; units and nav as the data processor
\* left them
build_output(aggregation, funds, chart_top_n) ==
    LET top_n == IF chart_top_n = None \/ Value(chart_top_n) = 0 THEN DefaultChartTopN
                 ELSE Value(chart_top_n)
        companies == _build_company_allocations(aggregation.company_amounts,
                                                aggregation.total_value)
        funds_out == [k \in 1..Len(funds) |->
                         [fund_name |-> funds[k].fund_name, url |-> funds[k].url,
                          units |-> funds[k].units, nav |-> funds[k].nav,
                          value |-> format_currency_value(funds[k].fund_value, 1000)]]
    IN [portfolio_summary |-> [total_value |-> format_currency_value(
                                                   aggregation.total_value, 1000),
                               fund_count |-> Len(funds_out),
                               unique_companies |-> Len(companies),
                               top_n |-> top_n],
        funds |-> funds_out,
        company_allocations |-> companies,
        top_companies |-> limit_results(companies, Some(top_n))]

----------------------------------------------------------------------------
(* The aggregation pipeline on one category's processed funds:              *)
(* _process_single_category after process_fund_jsons                        *)

\* top holdings come ranked by weight: the holding of rank j weighs
\* WeightStep * (MaxHoldings + 1 - j)
RankedHoldings(names) ==
    [j \in 1..Len(names) |->
        [company_name |-> names[j],
         allocation_percentage |-> WeightStep * (MaxHoldings + 1 - j)]]

\* _process_single_fund returns a fund only when it has at least one holding
ProcessedFund ==
    {[name |-> name, aum |-> aum, holdings |-> RankedHoldings(names)] :
        name \in FundNames, aum \in AumValues,
        names \in NonEmptySeqsUpTo(CompanyNames, MaxHoldings)}

ConfigInts == {None} \cup {Some(v) : v \in -1..MaxConfigInt}

\* the orchestrator is not running
RunIdle ==
    /\ config = None
    /\ request = None
    /\ pc = "idle"
    /\ todo = << >>
    /\ executed = << >>
    /\ error = None
    /\ requirements = None
    /\ fetch_pos = None
    /\ scrape_results = << >>
    /\ scraped_data_info = None
    /\ events = << >>
    /\ scraped_files = {}
    /\ loaded_data = << >>
    /\ cat_pos = 0
    /\ output_paths = << >>
    /\ summary = None
    /\ reports = << >>
    /\ results = << >>
    /\ fetched_reports = << >>

TextIdle ==
    /\ raw_text = << >>
    /\ name_results = << >>
    /\ parse_result = None

DocIdle ==
    /\ raw_documents = << >>
    /\ portfolio_funds = None
    /\ portfolio_output = None

\* holdings_config.params: one of the two limits configured, or none
AggParams ==
    {[max_sample_funds_per_company |-> max_samples,
      max_companies_in_results |-> None,
      exclude_from_analysis |-> {}] : max_samples \in ConfigInts}
    \cup {[max_sample_funds_per_company |-> None,
           max_companies_in_results |-> max_companies,
           exclude_from_analysis |-> {}] :
              max_companies \in {None, Some(-1), Some(0), Some(1)}}

AggInit ==
    /\ processed_funds \in SeqsUpTo(ProcessedFund, MaxFunds)
    /\ params \in AggParams
    /\ aggregated_data = None
    /\ category_output = None
    /\ stage = "processed"
    /\ RunIdle
    /\ TextIdle
    /\ DocIdle

AggregateHoldings ==
    /\ stage = "processed"
    /\ aggregated_data' = aggregate_holdings(processed_funds,
                                             params.max_sample_funds_per_company)
    /\ stage' = "aggregated"
    /\ UNCHANGED <<processed_funds, params, category_output>>
    /\ UNCHANGED runVars
    /\ UNCHANGED <<textVars, docVars>>

BuildCategoryOutput ==
    /\ stage = "aggregated"
    /\ category_output' = build_category_output(aggregated_data,
                                                params.max_companies_in_results)
    /\ stage' = "built"
    /\ UNCHANGED <<processed_funds, params, aggregated_data>>
    /\ UNCHANGED runVars
    /\ UNCHANGED <<textVars, docVars>>

AggNext == AggregateHoldings \/ BuildCategoryOutput

SpecAgg == AggInit /\ [][AggNext]_vars

----------------------------------------------------------------------------
(* Part III  the orchestrated run                                           *)
(*           (orchestration/analysis_orchestrator.py, analysis/factories.py,*)
(*            analysis/scraping/*.py, storage/path_generator.py,            *)
(*            analysis/analyzers/holdings/holdings_analyzer.py,             *)
(*            analysis/analyzers/portfolio/portfolio_analyzer.py)           *)
(*                                                                          *)
(* A fund URL is an integer id.  A path is [dir, file]: dir the sequence of *)
(* directory names, file the part that names the document.                  *)

\* config.analyses in the order of the configuration file
AnalysisIds == <<"holdings", "portfolio">>

\* analyzers registered when the orchestrator module is imported
RegisteredAnalyzers == {"holdings", "portfolio-composition"}

CategoryNames == <<"largeCap", "midCap", "smallCap">>

Today == "20240903"

CategoryUrls(ci) == [k \in 1..UrlsPerCategory |-> (ci - 1) * UrlsPerCategory + k]

HoldingsCategories ==
    [ci \in 1..NumCategories |-> [category |-> CategoryNames[ci], urls |-> CategoryUrls(ci)]]

PortfolioFunds == [k \in 1..NumPortfolioFunds |-> [url |-> NumCategories * UrlsPerCategory + k, units |-> 1]]

Configs ==
    {[analyses |->
         [holdings |-> [enabled |-> holdings_enabled,
                        type |-> holdings_type,
                        data_requirements |-> [scraping_strategy |-> strategy,
                                               categories |-> HoldingsCategories]],
          portfolio |-> [enabled |-> portfolio_enabled,
                         type |-> "portfolio-composition",
                         data_requirements |-> [scraping_strategy |-> "api_scraping",
                                                funds |-> PortfolioFunds]]],
      scraping |-> [delay_between_requests |-> delay, save_extracted_json |-> TRUE],
      paths |-> [output_dir |-> "outputs/extracted_json",
                 analysis_dir |-> "outputs/analysis"]] :
        holdings_enabled \in BOOLEAN, portfolio_enabled \in BOOLEAN,
        holdings_type \in {"holdings", "fund-holdings"},
        strategy \in {"categories", "api_scraping"},
        delay \in {0, 1}}

Requests ==
    [analysis_type : {None, Some("holdings"), Some("portfolio"), Some("unknown")},
     date : {None},
     analysis_only : {FALSE}]

(* Raw documents served by the fund pages *)

Text_X_Ltd == <<"X", " ", "L", "t", "d">>
Text_X_Limited == <<"X", " ", "L", "i", "m", "i", "t", "e", "d">>
Text_Y == <<"Y">>
Text_Cash == <<"C", "a", "s", "h">>
Text_8_5_pct == <<"8", ".", "5", "%">>
Text_6_pct == <<"6", "%">>
Text_5_pct == <<"5", "%">>
Text_invalid_pct == <<"-">>

RawHolding(company_name, allocation_percentage) ==
    [company_name |-> company_name, allocation_percentage |-> allocation_percentage]

RawDocument(fund_name, top_holdings) ==
    [data |-> [fund_info |-> [fund_name |-> fund_name, aum |-> "N/A"],
               top_holdings |-> top_holdings]]

\* exclude_from_analysis of the holdings analysis
ExcludedHoldings == {Text_Cash}

\* the document a successful fetch of the URL yields
DocOf(url) ==
    CASE url = 1 -> RawDocument(Some("Fund A"),
                        <<RawHolding(Text_X_Ltd, Text_8_5_pct), RawHolding(Text_Y, Text_6_pct)>>)
      [] url = 2 -> RawDocument(None,
                        <<RawHolding(Text_X_Limited, Text_5_pct), RawHolding(Text_X_Ltd, Text_5_pct)>>)
      [] url = 3 -> RawDocument(Some("Fund C"),
                        <<RawHolding(Text_Cash, Text_5_pct), RawHolding(Text_Y, Text_invalid_pct)>>)
      [] url = 4 -> RawDocument(Some("Fund A"), <<RawHolding(Text_X_Ltd, Text_6_pct)>>)
      [] OTHER -> RawDocument(Some("Fund B"), <<RawHolding(Text_Y, Text_5_pct)>>)

(* PathGenerator *)

\* type.split("-")[-1]
SplitLastDash(type) ==
    CASE type = "fund-holdings" -> "holdings"
      [] type = "portfolio-composition" -> "composition"
      [] OTHER -> type

\* Path(...): empty directory names vanish
PathOf(dir, file) ==
    LET NonEmpty(name) == name # ""
    IN [dir |-> SelectSeq(dir, NonEmpty), file |-> file]

generate_smart_default_path(base_dir, date_str, analysis_type, category) ==
    IF category # "" /\ category # "default"
        THEN <<base_dir, date_str, analysis_type, category>>
        ELSE <<base_dir, date_str, analysis_type>>

\* analysis_config is None or Some of the value of its "type" key, itself None when absent
generate_scraped_data_path(cfg, url, category, analysis_config) ==
    LET analysis_type ==
            IF analysis_config = None THEN "default"
            ELSE IF Value(analysis_config) = None THEN ""
            ELSE SplitLastDash(Value(Value(analysis_config)))
    IN PathOf(generate_smart_default_path(cfg.paths.output_dir, Today,
                                          analysis_type, category), url)

generate_analysis_output_path(cfg, category, analysis_type, date_str) ==
    PathOf(<<cfg.paths.analysis_dir, date_str, analysis_type>>, category)

----------------------------------------------------------------------------
(* Exceptions *)

OrchestrationError(context, cause) ==
    [type |-> "OrchestrationError", context |-> context, cause |-> cause]

\* _run_single_analysis, except clause: OrchestrationError and AnalysisError
\* pass, anything else is wrapped
WrapUnexpected(cause, analysis_id) ==
    IF cause \in {"OrchestrationError", "AnalysisError"}
        THEN [type |-> cause, context |-> None, cause |-> cause]
        ELSE OrchestrationError(Some([analysis_type |-> analysis_id]), cause)

(* MFAConfig.get_enabled_analyses *)

get_enabled_analyses(cfg) ==
    LET Enabled(analysis_id) == cfg.analyses[analysis_id].enabled
    IN SelectSeq(AnalysisIds, Enabled)

IsRunnable_configured(analysis_type, cfg) == analysis_type \in SeqRange(AnalysisIds)

\* run_analysis: analysis_type in enabled_analyses
IsRunnable(analysis_type, cfg) == analysis_type \in SeqRange(get_enabled_analyses(cfg))

(* get_data_requirements of the two analyzers *)

RECURSIVE SortedSeq(_)
SortedSeq(S) ==
    IF S = {} THEN << >>
    ELSE LET least == CHOOSE x \in S : \A y \in S : x <= y
         IN <<least>> \o SortedSeq(S \ {least})

RECURSIVE Flatten(_)
Flatten(lists) == IF lists = << >> THEN << >> ELSE Head(lists) \o Flatten(Tail(lists))

get_data_requirements(type, cfg) ==
    IF type = "holdings"
    THEN LET holdings_config == cfg.analyses["holdings"]
             categories == holdings_config.data_requirements.categories
             all_urls == Flatten([ci \in 1..Len(categories) |-> categories[ci].urls])
         IN [strategy |-> holdings_config.data_requirements.scraping_strategy,
             urls |-> SortedSeq(SeqRange(all_urls)),
             metadata |-> [categories |-> Some(categories), analysis_id |-> "holdings"]]
    ELSE LET funds == cfg.analyses["portfolio"].data_requirements.funds
         IN [strategy |-> "api_scraping",
             urls |-> [k \in 1..Len(funds) |-> funds[k].url],
             metadata |-> [categories |-> None, analysis_id |-> "portfolio"]]

(* Scraping coordinators *)

\* the URL groups a coordinator walks through: the categories, or the flat list
FetchPlan(req) ==
    IF req.metadata.categories # None
        THEN Value(req.metadata.categories)
        ELSE <<[category |-> "targeted", urls |-> req.urls]>>

\* what one scrape call can do: the coin scraper raises when it cannot fetch
\* or cannot save, the API scraper raises when it cannot fetch and only logs
\* a failed save
FetchOutcomes(strategy) ==
    IF strategy = "categories" THEN {"success", "failed"}
                               ELSE {"success", "unsaved", "failed"}

\* the outcomes tried for the next scrape call: once MaxFetchFailures calls
\* of the run did not succeed, the remaining ones do
NextFetchOutcomes(strategy, evs) ==
    IF Cardinality({k \in 1..Len(evs) :
                       evs[k][1] = "fetch" /\ evs[k][3] # "success"}) < MaxFetchFailures
        THEN FetchOutcomes(strategy)
        ELSE {"success"}

\* APIScrapingCoordinator._build_storage_config_for_api: the folder name
ApiAnalysisFolder(type) ==
    IF type = "portfolio-composition" THEN "portfolio" ELSE SplitLastDash(type)

\* the path a scraper saves the document of a URL to
SavePath(cfg, req, category, url) ==
    LET analysis_config == cfg.analyses[req.metadata.analysis_id]
    IN IF req.strategy = "categories"
          THEN generate_scraped_data_path(cfg, url, category, Some(Some("default")))
       ELSE IF req.metadata.categories # None
          THEN generate_scraped_data_path(cfg, url, category,
                                          Some(Some(analysis_config.type)))
       ELSE generate_scraped_data_path(cfg, url, ApiAnalysisFolder(analysis_config.type),
                                       Some(None))

\* _generate_expected_file_paths of the coordinator in charge
ExpectedPath(cfg, req, category, url) ==
    LET analysis_config == cfg.analyses[req.metadata.analysis_id]
    IN IF req.strategy = "categories"
          THEN generate_scraped_data_path(cfg, url, category,
                                          Some(Some(req.metadata.analysis_id)))
       ELSE IF req.metadata.categories # None
          THEN generate_scraped_data_path(cfg, url, category,
                                          Some(Some(analysis_config.type)))
       ELSE generate_scraped_data_path(cfg, url, ApiAnalysisFolder(analysis_config.type),
                                       Some(None))

(* AnalysisOrchestrator._discover_existing_data_files *)

\* base_dir.glob("*.json"): the documents in a directory, in any order
JsonFilesIn(files, dir) ==
    LET found == {path \in files : path.dir = dir}
    IN {listing \in SeqsUpTo(found, Cardinality(found)) :
           /\ Len(listing) = Cardinality(found)
           /\ SeqRange(listing) = found}

\* the loop over the categories of the requirement
RECURSIVE DiscoverCategories(_, _, _)
DiscoverCategories(categories, base_dir, files) ==
    IF categories = << >> THEN {<< >>}
    ELSE {<<[category |-> Head(categories).category, paths |-> category_files]>> \o rest :
             category_files \in JsonFilesIn(files,
                                            Append(base_dir, Head(categories).category)),
             rest \in DiscoverCategories(Tail(categories), base_dir, files)}

\* the values _discover_existing_data_files can return: there is a branch
\* for the strategies categories and targeted_funds and none for
\* api_scraping
discover_existing_data_files(req, cfg, date_str, files) ==
    LET analysis_folder == req.metadata.analysis_id
        base_dir == <<cfg.paths.output_dir, date_str, analysis_folder>>
        file_paths ==
            IF req.strategy = "categories"
               THEN DiscoverCategories(Value(req.metadata.categories), base_dir, files)
            ELSE IF req.strategy = "targeted_funds"
               THEN {<<[category |-> "targeted", paths |-> targeted]>> :
                        targeted \in JsonFilesIn(files, base_dir)}
            ELSE {<< >>}
    IN {[strategy |-> req.strategy, file_paths |-> paths] : paths \in file_paths}

\* time.sleep after a URL: the category coordinator sleeps only after a
\* success, the API coordinator after every URL that is not the last
SleepsAfter(strategy, outcome, i, n, delay) ==
    /\ i < n
    /\ delay > 0
    /\ strategy = "categories" => outcome = "success"

\* time.sleep inside a scrape call: the API scraper waits before its request
\* (ZerodhaAPIFundScraper._fetch_api_data, get_json_with_delay), the coin
\* scraper does not
SleepsBefore(strategy, delay) ==
    /\ strategy = "api_scraping"
    /\ delay > 0

NextUrlIndex_abort(i, n, outcome) == IF outcome = "failed" THEN n + 1 ELSE i + 1

\* the loop over the URLs of a group goes on after a failure
NextUrlIndex(i, n, outcome) == i + 1

----------------------------------------------------------------------------
(* The run *)

Init ==
    /\ config \in Configs
    /\ request \in Requests
    /\ params = [max_sample_funds_per_company |-> None,
                 max_companies_in_results |-> None,
                 exclude_from_analysis |-> ExcludedHoldings]
    /\ processed_funds = << >>
    /\ aggregated_data = None
    /\ category_output = None
    /\ stage = "idle"
    /\ pc = "run_analysis"
    /\ todo = << >>
    /\ executed = << >>
    /\ error = None
    /\ requirements = None
    /\ fetch_pos = None
    /\ scrape_results = << >>
    /\ scraped_data_info = None
    /\ events = << >>
    /\ scraped_files = {}
    /\ loaded_data = << >>
    /\ cat_pos = 0
    /\ output_paths = << >>
    /\ summary = None
    /\ reports = << >>
    /\ results = << >>
    /\ fetched_reports = << >>
    /\ TextIdle
    /\ DocIdle

\* AnalysisOrchestrator.run_analysis up to its loop
RunAnalysis ==
    /\ pc = "run_analysis"
    /\ IF request.analysis_type # None
          THEN IF IsRunnable(Value(request.analysis_type), config)
                  THEN /\ todo' = <<Value(request.analysis_type)>>
                       /\ pc' = "run_single_analysis"
                       /\ error' = error
                  ELSE /\ todo' = todo
                       /\ pc' = "raised"
                       /\ error' = Some(OrchestrationError(
                                      Some([analysis_type |-> Value(request.analysis_type)]),
                                      "not found or not enabled"))
          ELSE /\ todo' = get_enabled_analyses(config)
               /\ pc' = IF todo' = << >> THEN "returned" ELSE "run_single_analysis"
               /\ error' = error
    /\ UNCHANGED <<processed_funds, params, aggregated_data, category_output, stage>>
    /\ UNCHANGED <<config, request, executed, requirements, fetch_pos, scrape_results,
                   scraped_data_info, events, scraped_files, loaded_data, cat_pos,
                   output_paths, summary, reports, results>>
    /\ UNCHANGED fetched_reports
    /\ UNCHANGED <<textVars, docVars>>

\* _run_single_analysis: create the analyzer, get its requirements and
\* create the coordinator
StartSingleAnalysis ==
    /\ pc = "run_single_analysis"
    /\ LET analysis_id == Head(todo)
           analysis_config == config.analyses[analysis_id]
       IN /\ executed' = Append(executed, analysis_id)
          /\ IF analysis_config.type \notin RegisteredAnalyzers
                THEN /\ pc' = "raised"
                     /\ error' = Some(WrapUnexpected("ValueError", analysis_id))
                     /\ UNCHANGED <<requirements, fetch_pos, scrape_results,
                                    scraped_data_info>>
                ELSE /\ requirements' = get_data_requirements(analysis_config.type, config)
                     /\ fetch_pos' = [group |-> 1, url |-> 1]
                     /\ scrape_results' = << >>
                     /\ IF request.analysis_only
                           THEN /\ scraped_data_info' \in
                                      discover_existing_data_files(
                                          requirements', config,
                                          IF request.date = None THEN Today
                                          ELSE Value(request.date),
                                          scraped_files)
                                /\ pc' = "analyze"
                           ELSE /\ scraped_data_info' = [strategy |-> requirements'.strategy,
                                                         file_paths |-> << >>]
                                /\ pc' = "scrape"
                     /\ error' = error
    /\ UNCHANGED <<processed_funds, params, aggregated_data, category_output, stage>>
    /\ UNCHANGED <<config, request, todo, events, scraped_files, loaded_data, cat_pos,
                   output_paths, summary, reports, results>>
    /\ UNCHANGED fetched_reports
    /\ UNCHANGED <<textVars, docVars>>

\* one turn of the coordinator's loop over the URLs of a group
\* (_scrape_urls_with_delay, _scrape_urls_with_api); after the last URL of
\* the group the expected file paths of the whole group are recorded
ScrapeUrl ==
    /\ pc = "scrape"
    /\ LET plan == FetchPlan(requirements)
           group == plan[fetch_pos.group]
           i == fetch_pos.url
           n == Len(group.urls)
           url == group.urls[i]
           strategy == requirements.strategy
           delay == config.scraping.delay_between_requests
       IN \E outcome \in NextFetchOutcomes(strategy, events) :
            LET next == NextUrlIndex(i, n, outcome)
                save_path == SavePath(config, requirements, group.category, url)
                expected == [k \in 1..n |->
                                ExpectedPath(config, requirements, group.category,
                                             group.urls[k])]
            IN /\ events' = events
                      \o (IF SleepsBefore(strategy, delay)
                             THEN <<<<"sleep", url, delay>>>> ELSE << >>)
                      \o <<<<"fetch", url, outcome>>>>
                      \o (IF outcome = "success" THEN <<<<"write", url, save_path.dir>>>>
                                                 ELSE << >>)
                      \o (IF SleepsAfter(strategy, outcome, i, n, delay)
                             THEN <<<<"sleep", url, delay>>>> ELSE << >>)
               /\ scraped_files' = IF outcome = "success"
                                      THEN scraped_files \cup {save_path}
                                      ELSE scraped_files
               /\ scrape_results' =
                      IF outcome = "failed" /\ strategy = "categories"
                         THEN scrape_results
                         ELSE Append(scrape_results,
                                     [url |-> url,
                                      status |-> IF outcome = "failed" THEN "failed"
                                                                       ELSE "success"])
               /\ IF next <= n
                     THEN /\ fetch_pos' = [fetch_pos EXCEPT !.url = next]
                          /\ UNCHANGED <<scraped_data_info, pc>>
                     ELSE /\ scraped_data_info' =
                                [scraped_data_info EXCEPT !.file_paths =
                                    Append(@, [category |-> group.category,
                                               paths |-> expected])]
                          /\ IF fetch_pos.group < Len(plan)
                                THEN /\ fetch_pos' = [group |-> fetch_pos.group + 1, url |-> 1]
                                     /\ pc' = pc
                                ELSE /\ fetch_pos' = fetch_pos
                                     /\ pc' = "analyze"
    /\ UNCHANGED <<processed_funds, params, aggregated_data, category_output, stage>>
    /\ UNCHANGED <<config, request, todo, executed, error, requirements, loaded_data,
                   cat_pos, output_paths, summary, reports, results>>
    /\ UNCHANGED fetched_reports
    /\ UNCHANGED <<textVars, docVars>>

(* Analyzers *)

AnalysisDate == IF request.date = None THEN Today ELSE Value(request.date)

\* JsonStore.load of every path, the ones that fail left out
LoadDocuments(paths, files) ==
    LET Loads(path) == path \in files
        found == SelectSeq(paths, Loads)
    IN [j \in 1..Len(found) |-> DocOf(found[j].file)]

load_files_from_data_source(data_source, files) ==
    [k \in 1..Len(data_source.file_paths) |->
        [category |-> data_source.file_paths[k].category,
         docs |-> LoadDocuments(data_source.file_paths[k].paths, files)]]

ReadEvents(data_source) ==
    Flatten([k \in 1..Len(data_source.file_paths) |->
                [j \in 1..Len(data_source.file_paths[k].paths) |->
                    <<"read", data_source.file_paths[k].paths[j].file,
                      data_source.file_paths[k].paths[j].dir>>]])

initialize_summary(loaded) ==
    [total_categories |-> Len(loaded), categories_processed |-> 0,
     total_funds |-> 0, total_companies |-> 0]

\* a summary that does not count the category
update_summary_uncounted(summary_, processed, output) ==
    [summary_ EXCEPT !.total_funds = @ + Len(processed),
                     !.total_companies = @ + output.unique_companies]

\* HoldingsAnalyzer._update_summary
update_summary(summary_, processed, output) ==
    [summary_ EXCEPT !.categories_processed = @ + 1,
                     !.total_funds = @ + Len(processed),
                     !.total_companies = @ + output.unique_companies]

should_skip_category_never(fund_data_list) == FALSE

should_skip_category(fund_data_list) == fund_data_list = << >>

\* HoldingsAnalyzer.analyze up to the loop of _process_all_categories
LoadHoldingsData ==
    /\ pc = "analyze"
    /\ config.analyses[Head(todo)].type = "holdings"
    /\ \E loaded \in {load_files_from_data_source(scraped_data_info, scraped_files)} :
          /\ events' = events \o ReadEvents(scraped_data_info)
          /\ IF loaded = << >>
                THEN /\ pc' = "raised"
                     /\ error' = Some(WrapUnexpected("ValueError", Head(todo)))
                     /\ UNCHANGED <<loaded_data, cat_pos, output_paths, summary>>
                ELSE /\ loaded_data' = loaded
                     /\ cat_pos' = 1
                     /\ output_paths' = << >>
                     /\ summary' = initialize_summary(loaded)
                     /\ pc' = "process_categories"
                     /\ error' = error
    /\ UNCHANGED <<processed_funds, params, aggregated_data, category_output, stage>>
    /\ UNCHANGED <<config, request, todo, executed, requirements, fetch_pos,
                   scrape_results, scraped_data_info, scraped_files, reports, results>>
    /\ UNCHANGED fetched_reports
    /\ UNCHANGED <<textVars, docVars>>

\* one turn of the loop of _process_all_categories: skip the category, or
\* _process_single_category with _save_category_result and _update_summary
\* The report is written by JsonStore.save_with_path, which json_store.py
\* does not define; the write is taken to do what JsonStore.save does: it
\* writes the file or raises, and nothing on the way up to
\* _run_single_analysis catches what it raises.
ProcessCategory ==
    /\ pc = "process_categories"
    /\ LET category == loaded_data[cat_pos].category
           fund_data_list == loaded_data[cat_pos].docs
           after == IF cat_pos = Len(loaded_data) THEN "analysis_done" ELSE pc
       IN IF should_skip_category(fund_data_list)
             THEN /\ cat_pos' = cat_pos + 1
                  /\ pc' = after
                  /\ UNCHANGED <<processed_funds, aggregated_data, category_output, stage,
                                 events, reports, output_paths, summary, error>>
             ELSE \E processed \in {process_fund_jsons(fund_data_list,
                                                        params.exclude_from_analysis)} :
                  \E aggregated \in {aggregate_holdings(processed,
                                         params.max_sample_funds_per_company)} :
                  \E output \in {build_category_output(aggregated,
                                         params.max_companies_in_results)} :
                  LET output_path == generate_analysis_output_path(config, category,
                                        "holdings", AnalysisDate)
                  IN /\ processed_funds' = processed
                     /\ aggregated_data' = aggregated
                     /\ category_output' = output
                     /\ stage' = "built"
                     /\ \E saved \in BOOLEAN :
                          /\ events' = Append(events, <<"write_report", category, saved>>)
                          /\ IF saved
                                THEN /\ reports' = (output_path :> output) @@ reports
                                     /\ output_paths' = Append(output_paths, output_path)
                                     /\ summary' = update_summary(summary, processed,
                                                                  output)
                                     /\ cat_pos' = cat_pos + 1
                                     /\ pc' = after
                                     /\ error' = error
                                ELSE /\ pc' = "raised"
                                     /\ error' = Some(WrapUnexpected("JsonStorageError",
                                                                     Head(todo)))
                                     /\ UNCHANGED <<reports, output_paths, summary, cat_pos>>
    /\ UNCHANGED <<config, request, params, todo, executed, requirements, fetch_pos,
                   scrape_results, scraped_data_info, scraped_files, loaded_data, results>>
    /\ UNCHANGED fetched_reports
    /\ UNCHANGED <<textVars, docVars>>

\* PortfolioAnalyzer.analyze; the report keeps the number of funds only
AnalyzePortfolio ==
    /\ pc = "analyze"
    /\ config.analyses[Head(todo)].type = "portfolio-composition"
    /\ LET Targeted(entry) == entry.category = "targeted"
           targeted == SelectSeq(scraped_data_info.file_paths, Targeted)
           targeted_files == IF targeted = << >> THEN << >> ELSE targeted[1].paths
           fund_documents == LoadDocuments(targeted_files, scraped_files)
           output_path == generate_analysis_output_path(config, "portfolio",
                              "portfolio-composition", AnalysisDate)
           read_events == [j \in 1..Len(targeted_files) |->
                              <<"read", targeted_files[j].file, targeted_files[j].dir>>]
       IN IF fund_documents = << >>
             THEN /\ events' = events \o read_events
                  /\ pc' = "raised"
                  /\ error' = Some(WrapUnexpected("ConfigurationError", Head(todo)))
                  /\ UNCHANGED <<reports, output_paths, summary>>
             ELSE \E saved \in BOOLEAN :
                    /\ events' = events \o read_events
                                        \o <<<<"write_report", "portfolio", saved>>>>
                    /\ IF saved
                          THEN /\ reports' = (output_path :>
                                                [funds |-> Len(fund_documents)]) @@ reports
                               /\ output_paths' = <<output_path>>
                               /\ summary' = [funds |-> Len(fund_documents)]
                               /\ pc' = "analysis_done"
                               /\ error' = error
                          ELSE /\ pc' = "raised"
                               /\ error' = Some(WrapUnexpected("JsonStorageError",
                                                               Head(todo)))
                               /\ UNCHANGED <<reports, output_paths, summary>>
    /\ UNCHANGED <<processed_funds, params, aggregated_data, category_output, stage>>
    /\ UNCHANGED <<config, request, todo, executed, requirements, fetch_pos,
                   scrape_results, scraped_data_info, scraped_files, loaded_data,
                   cat_pos, results>>
    /\ UNCHANGED fetched_reports
    /\ UNCHANGED <<textVars, docVars>>

\* the analyzer returns its AnalysisResult; run_analysis goes on with the
\* next analysis or returns
CompleteAnalysis ==
    /\ pc = "analysis_done"
    /\ results' = Append(results, [analysis_type |-> config.analyses[Head(todo)].type,
                                   date |-> AnalysisDate,
                                   output_paths |-> output_paths,
                                   summary |-> summary])
    /\ todo' = Tail(todo)
    /\ pc' = IF todo' = << >> THEN "returned" ELSE "run_single_analysis"
    /\ UNCHANGED <<processed_funds, params, aggregated_data, category_output, stage>>
    /\ UNCHANGED <<config, request, executed, error, requirements, fetch_pos,
                   scrape_results, scraped_data_info, events, scraped_files, loaded_data,
                   cat_pos, output_paths, summary, reports>>
    /\ UNCHANGED fetched_reports
    /\ UNCHANGED <<textVars, docVars>>

Next ==
    \/ RunAnalysis
    \/ StartSingleAnalysis
    \/ ScrapeUrl
    \/ LoadHoldingsData
    \/ ProcessCategory
    \/ AnalyzePortfolio
    \/ CompleteAnalysis

Spec == Init /\ [][Next]_vars

\* run_analysis called again with analysis_only = True, for the same
\* analyses and the same date, once a run that fetched has returned
RunAnalysisOnly ==
    /\ pc = "returned"
    /\ ~request.analysis_only
    /\ results # << >>
    /\ request' = [request EXCEPT !.analysis_only = TRUE]
    /\ pc' = "run_analysis"
    /\ todo' = << >>
    /\ executed' = << >>
    /\ results' = << >>
    /\ fetched_reports' = reports
    /\ UNCHANGED <<config, error, requirements, fetch_pos, scrape_results,
                   scraped_data_info, events, scraped_files, loaded_data, cat_pos,
                   output_paths, summary, reports>>
    /\ UNCHANGED <<aggVars, params, textVars, docVars>>

AnalysisOnlyNext ==
    \/ Next
    \/ RunAnalysisOnly

SpecAnalysisOnly == Init /\ [][AnalysisOnlyNext]_vars

----------------------------------------------------------------------------
(* The text functions, each called on a text *)

\* pieces of company names and of percentage, currency and NAV texts
Fragments ==
    {<<"X">>, <<" ">>, <<".">>,
     <<" ", "L", "t", "d">>,
     <<" ", "L", "i", "m", "i", "t", "e", "d">>,
     <<" ", "C", "o">>,
     <<"R", "s", ".", " ">>,
     <<"1", "2">>, <<".", "5">>, <<",">>, <<"%">>, <<"-">>}

RawTexts == {Flatten(fragments) : fragments \in SeqsUpTo(Fragments, MaxFragments)}

AggIdle ==
    /\ processed_funds = << >>
    /\ params = [max_sample_funds_per_company |-> None,
                 max_companies_in_results |-> None,
                 exclude_from_analysis |-> {}]
    /\ aggregated_data = None
    /\ category_output = None
    /\ stage = "idle"

TextInit ==
    /\ raw_text \in RawTexts
    /\ name_results = << >>
    /\ parse_result = None
    /\ AggIdle
    /\ RunIdle
    /\ DocIdle

\* normalize_company_name on the text, then on its own result
NormalizeCompanyName ==
    /\ Len(name_results) < 2
    /\ name_results' = Append(name_results,
                              normalize_company_name(IF name_results = << >>
                                                         THEN raw_text
                                                         ELSE Last(name_results)))
    /\ UNCHANGED <<raw_text, parse_result>>
    /\ UNCHANGED <<aggVars, params, runVars, docVars>>

Parse(parser, outcome) ==
    /\ parse_result = None
    /\ parse_result' = Some([parser |-> parser, raised |-> outcome.raised,
                             value |-> outcome.value])
    /\ UNCHANGED <<raw_text, name_results>>
    /\ UNCHANGED <<aggVars, params, runVars, docVars>>

ParsePercentage == Parse("parse_percentage", DataProcessorUtils_parse_percentage(raw_text))

ParsePercentageAsDecimal ==
    Parse("parse_percentage_as_decimal", parse_percentage_as_decimal(raw_text))

ParseCurrency == Parse("parse_currency", parse_currency(raw_text))

ParseNav == Parse("_parse_nav", parse_nav(raw_text))

ParsePercent == Parse("_parse_percent", parse_percent(raw_text))

TextNext ==
    \/ NormalizeCompanyName
    \/ ParsePercentage
    \/ ParsePercentageAsDecimal
    \/ ParseCurrency
    \/ ParseNav
    \/ ParsePercent

SpecText == TextInit /\ [][TextNext]_vars

----------------------------------------------------------------------------
(* The two data processors, each given a list of raw documents *)

Text_Net_Cash == <<"N", "e", "t", " ", "C", "a", "s", "h">>
Text_cash == <<"c", "a", "s", "h">>
Text_nav == <<"1", "2", ".", "5">>
Text_nav_Rs == <<"R", "s", ".", " ", "1", "2", ".", "5">>

\* a document as _build_document writes it: the fund page of the URL
SampleDocument(url, fund_name, current_nav, top_holdings) ==
    [source_url |-> url,
     data |-> [fund_info |-> [fund_name |-> Some(fund_name), aum |-> "N/A",
                              current_nav |-> current_nav],
               top_holdings |-> top_holdings]]

SampleDocuments ==
    {SampleDocument(1, "Fund A", Text_nav,
         <<RawHolding(Text_X_Ltd, Text_8_5_pct), RawHolding(Text_Net_Cash, Text_5_pct)>>),
     SampleDocument(2, "Fund B", Text_nav_Rs,
         <<RawHolding(Text_Y, Text_6_pct)>>),
     SampleDocument(3, "Fund C", None,
         <<RawHolding(Text_Net_Cash, Text_5_pct), RawHolding(Text_Y, Text_invalid_pct),
           RawHolding(<< >>, Text_5_pct)>>),
     SampleDocument(4, "Fund D", Text_nav,
         <<RawHolding(Text_X_Ltd, Text_6_pct), NotAnObject>>)}

\* exclude_from_analysis as configured
ExclusionLists == {{}, {Text_cash}, {Text_Net_Cash}}

\* map_url_to_units of the configured funds: the fund pages of the portfolio,
\* with or without the third
PortfolioUnits == {(1 :> 1) @@ (2 :> 1) @@ (3 :> 2), (1 :> 1) @@ (2 :> 1)}

DocsInit ==
    /\ raw_documents \in NonEmptySeqsUpTo(SampleDocuments, MaxDocuments)
    /\ params \in [max_sample_funds_per_company : {None},
                   max_companies_in_results : {None},
                   exclude_from_analysis : ExclusionLists,
                   chart_top_n : {None, Some(1)}]
    /\ processed_funds = << >>
    /\ aggregated_data = None
    /\ category_output = None
    /\ stage = "loaded"
    /\ portfolio_funds = None
    /\ portfolio_output = None
    /\ RunIdle
    /\ TextIdle

\* _process_single_category: self.data_processor.process_fund_jsons(fund_data_list)
ProcessFundJsons ==
    /\ stage = "loaded"
    /\ processed_funds' = process_fund_jsons(raw_documents, params.exclude_from_analysis)
    /\ stage' = "processed"
    /\ UNCHANGED <<params, aggregated_data, category_output>>
    /\ UNCHANGED <<runVars, textVars, docVars>>

\* PortfolioAnalyzer.analyze: self.data_processor.process_fund_jsons(fund_documents,
\* url_to_units)
PortfolioProcessFundJsons ==
    /\ raw_documents # << >>
    /\ portfolio_funds = None
    /\ \E url_to_units \in PortfolioUnits :
          portfolio_funds' = Some(portfolio_process_fund_jsons(raw_documents, url_to_units))
    /\ UNCHANGED <<raw_documents, portfolio_output>>
    /\ UNCHANGED <<aggVars, params, runVars, textVars>>

\* PortfolioAnalyzer.analyze: aggregate_portfolio, then build_output
PortfolioBuildOutput ==
    /\ portfolio_funds # None
    /\ ~Value(portfolio_funds).raised
    /\ portfolio_output = None
    /\ portfolio_output' =
           Some(build_output(aggregate_portfolio(Value(portfolio_funds).value,
                                                 params.exclude_from_analysis),
                             Value(portfolio_funds).value, params.chart_top_n))
    /\ UNCHANGED <<raw_documents, portfolio_funds>>
    /\ UNCHANGED <<aggVars, params, runVars, textVars>>

DocsNext ==
    \/ ProcessFundJsons
    \/ AggregateHoldings
    \/ BuildCategoryOutput
    \/ PortfolioProcessFundJsons
    \/ PortfolioBuildOutput

SpecDocs == DocsInit /\ [][DocsNext]_vars

----------------------------------------------------------------------------
(* get_data_requirements of the two analyzers, on configurations that list *)
(* their URLs in any order and more than once                              *)

\* a list of URLs as a configuration file may give it
ListedUrls == SeqsUpTo(1..MaxListedUrls, MaxListedUrls)

RequirementConfigs ==
    {[cfg EXCEPT
         !.analyses.holdings.data_requirements.categories =
             [@ EXCEPT ![NumCategories].urls = category_urls],
         !.analyses.portfolio.data_requirements.funds =
             [k \in 1..Len(fund_urls) |-> [url |-> fund_urls[k], units |-> 1]]] :
        cfg \in {c \in Configs : /\ c.analyses.holdings.enabled
                                 /\ c.analyses.portfolio.enabled
                                 /\ c.analyses.holdings.type = "holdings"
                                 /\ c.scraping.delay_between_requests = 0},
        category_urls \in ListedUrls, fund_urls \in ListedUrls}

RequirementsInit ==
    /\ config \in RequirementConfigs
    /\ request = None
    /\ pc = "get_data_requirements"
    /\ todo = << >>
    /\ executed = << >>
    /\ error = None
    /\ requirements = None
    /\ fetch_pos = None
    /\ scrape_results = << >>
    /\ scraped_data_info = None
    /\ events = << >>
    /\ scraped_files = {}
    /\ loaded_data = << >>
    /\ cat_pos = 0
    /\ output_paths = << >>
    /\ summary = None
    /\ reports = << >>
    /\ results = << >>
    /\ fetched_reports = << >>
    /\ AggIdle
    /\ TextIdle
    /\ DocIdle

GetDataRequirements(type) ==
    /\ pc = "get_data_requirements"
    /\ requirements' = get_data_requirements(type, config)
    /\ pc' = "requirements"
    /\ UNCHANGED <<config, request, todo, executed, error, fetch_pos, scrape_results,
                   scraped_data_info, events, scraped_files, loaded_data, cat_pos,
                   output_paths, summary, reports, results, fetched_reports>>
    /\ UNCHANGED <<aggVars, params, textVars, docVars>>

\* HoldingsAnalyzer.get_data_requirements
HoldingsGetDataRequirements == GetDataRequirements("holdings")

\* PortfolioAnalyzer.get_data_requirements
PortfolioGetDataRequirements == GetDataRequirements("portfolio-composition")

RequirementsNext ==
    \/ HoldingsGetDataRequirements
    \/ PortfolioGetDataRequirements

SpecRequirements == RequirementsInit /\ [][RequirementsNext]_vars

----------------------------------------------------------------------------
(* Properties of the aggregation pipeline *)

HoldsCompany(fund, c) == \E j \in 1..Len(fund.holdings) : fund.holdings[j].company_name = c

\* the weights one fund gives to company c, in holdings order
RECURSIVE FundWeights(_, _)
FundWeights(holdings, c) ==
    IF holdings = << >> THEN << >>
    ELSE IF Head(holdings).company_name = c
         THEN <<Head(holdings).allocation_percentage>> \o FundWeights(Tail(holdings), c)
         ELSE FundWeights(Tail(holdings), c)

PerFundWeight(fund, c) == SumSeq(FundWeights(fund.holdings, c))

Aggregated == stage \in {"aggregated", "built"}

\* C1: after aggregate_holdings every company's total_weight is the sum, over
\* the funds of the input list each taken once, of the weight that fund gives
\* to the company (all of its holdings of that company), also when one fund
\* names the company more than once.
TotalWeightIsSumOfFundWeights ==
    Aggregated =>
        /\ DOMAIN aggregated_data.companies = HoldingCompanies(processed_funds)
        /\ \A c \in DOMAIN aggregated_data.companies :
              aggregated_data.companies[c].total_weight =
                  SumSeq([i \in 1..Len(processed_funds) |->
                             PerFundWeight(processed_funds[i], c)])

\* C1 witness: aggregation has run on two funds that both hold a company,
\* one of them naming it twice with different weights.
TotalWeightWitness ==
    /\ stage = "aggregated"
    /\ Len(processed_funds) = 2
    /\ processed_funds[1].name # processed_funds[2].name
    /\ \E c \in CompanyNames :
          /\ Len(FundWeights(processed_funds[1].holdings, c)) = 2
          /\ processed_funds[1].holdings[1].allocation_percentage
                # processed_funds[1].holdings[2].allocation_percentage
          /\ HoldsCompany(processed_funds[2], c)

\* C2: after aggregation every company's fund_count is the number of distinct
\* input funds whose holdings contain the company.
FundCountIsDistinctFunds ==
    Aggregated =>
        \A c \in DOMAIN aggregated_data.companies :
            aggregated_data.companies[c].fund_count =
                Cardinality({f \in SeqRange(processed_funds) : HoldsCompany(f, c)})

\* C8: every entry of common_in_all_funds has fund_count equal to the report's
\* total_funds, and the list is non-empty only if total_funds > 0.
CommonInAllFundsInvariant ==
    stage = "built" =>
        /\ \A i \in 1..Len(category_output.common_in_all_funds) :
              category_output.common_in_all_funds[i].fund_count
                  = category_output.total_funds
        /\ (category_output.common_in_all_funds # << >>
               => category_output.total_funds > 0)

\* C8 witness: a report over two funds with one company in both and another
\* company in only one of them.
CommonInAllFundsWitness ==
    /\ stage = "built"
    /\ category_output.total_funds = 2
    /\ Len(category_output.common_in_all_funds) = 1
    /\ category_output.unique_companies = 2

\* C9: no fund name appears twice in any company's sample_funds.
SampleFundsNoDuplicates ==
    Aggregated =>
        \A c \in DOMAIN aggregated_data.companies :
            LET sample_funds == aggregated_data.companies[c].sample_funds
            IN \A i, j \in 1..Len(sample_funds) :
                  sample_funds[i] = sample_funds[j] => i = j

\* the cap in force: the configured integer, 5 when none is configured,
\* 0 for a negative one
ConfiguredSampleCap ==
    LET configured == params.max_sample_funds_per_company
    IN IF configured = None THEN DefaultMaxSamples
       ELSE IF Value(configured) < 0 THEN 0 ELSE Value(configured)

\* C10: after aggregation every company's sample_funds is no longer than
\* max_sample_funds_per_company.
SampleFundsBounded ==
    Aggregated =>
        \A c \in DOMAIN aggregated_data.companies :
            Len(aggregated_data.companies[c].sample_funds) <= ConfiguredSampleCap

\* C10 witness: a company held by more fund entries than the configured
\* positive cap, whose sample_funds is filled to the cap.
SampleFundsBoundedWitness ==
    /\ stage = "aggregated"
    /\ params.max_sample_funds_per_company # None
    /\ Value(params.max_sample_funds_per_company) >= 1
    /\ \E c \in DOMAIN aggregated_data.companies :
          /\ Len(aggregated_data.companies[c].sample_funds)
                = Value(params.max_sample_funds_per_company)
          /\ Cardinality({i \in 1..Len(processed_funds) :
                             HoldsCompany(processed_funds[i], c)})
                > Value(params.max_sample_funds_per_company)

\* Python's order of characters (code points) and of strings
CodePoints == <<" ", "%", "+", "-", ".">> \o Digits \o Uppers \o Lowers

CodePoint(ch) == CHOOSE i \in 1..Len(CodePoints) : CodePoints[i] = ch

RECURSIVE TextLess(_, _)
TextLess(a, b) ==
    IF a = << >> THEN b # << >>
    ELSE IF b = << >> THEN FALSE
    ELSE IF Head(a) # Head(b) THEN CodePoint(Head(a)) < CodePoint(Head(b))
    ELSE TextLess(Tail(a), Tail(b))

\* (key1, name1) <= (key2, name2), the names compared last
KeyThenNameLeq(key1, name1, key2, name2) ==
    \/ TupleLess(key1, key2)
    \/ key1 = key2 /\ (name1 = name2 \/ TextLess(name1, name2))

Built == stage = "built"

\* C11: top_by_fund_count of a report is in ascending order of
\* (-fund_count, -total_weight, name).
TopByFundCountSortedWithName ==
    Built =>
        LET top == category_output.top_by_fund_count
        IN \A i \in 1..(Len(top) - 1) :
              KeyThenNameLeq(<<0 - top[i].fund_count, 0 - top[i].total_weight>>,
                             top[i].name,
                             <<0 - top[i + 1].fund_count, 0 - top[i + 1].total_weight>>,
                             top[i + 1].name)

\* C12: top_by_total_weight of a report is in ascending order of
\* (-total_weight, -fund_count, name).
TopByTotalWeightSortedWithName ==
    Built =>
        LET top == category_output.top_by_total_weight
        IN \A i \in 1..(Len(top) - 1) :
              KeyThenNameLeq(<<0 - top[i].total_weight, 0 - top[i].fund_count>>,
                             top[i].name,
                             <<0 - top[i + 1].total_weight, 0 - top[i + 1].fund_count>>,
                             top[i + 1].name)

\* maxResults: the configured max_companies_in_results, 100 when unset
ConfiguredMaxResults ==
    IF params.max_companies_in_results = None THEN DefaultMaxCompanies
    ELSE Value(params.max_companies_in_results)

\* the companies of the aggregation in the order of its dict
CompanyValues ==
    [i \in 1..Len(aggregated_data.company_order) |->
        aggregated_data.companies[aggregated_data.company_order[i]]]

\* shown is full cut to its first n entries when n is positive, full otherwise
IsTruncationOf(shown, full, n) ==
    IF n > 0 THEN /\ Len(shown) = Min(Len(full), n)
                  /\ \A i \in 1..Len(shown) : shown[i] = full[i]
             ELSE shown = full

\* C13: each of the three orderings of a report is the full ordering cut to
\* its first maxResults entries when maxResults is positive, and the full
\* ordering when maxResults is 0 or negative.
OrderingsTruncatedToMaxResults ==
    Built =>
        /\ IsTruncationOf(category_output.top_by_fund_count,
                          FormatAll(sort_companies_by_criteria(CompanyValues, "fund_count")),
                          ConfiguredMaxResults)
        /\ IsTruncationOf(category_output.top_by_total_weight,
                          FormatAll(sort_companies_by_criteria(CompanyValues, "total_weight")),
                          ConfiguredMaxResults)
        /\ IsTruncationOf(category_output.common_in_all_funds,
                          FormatAll(find_companies_in_all_funds(CompanyValues,
                                                                category_output.total_funds)),
                          ConfiguredMaxResults)

\* C13 witness: a report of two companies, both in every fund, built with
\* maxResults = 1: each ordering shows one company.
OrderingsTruncatedWitness ==
    /\ Built
    /\ params.max_companies_in_results = Some(1)
    /\ category_output.unique_companies = 2
    /\ Len(category_output.top_by_fund_count) = 1
    /\ Len(category_output.top_by_total_weight) = 1
    /\ Len(category_output.common_in_all_funds) = 1
    /\ Len(find_companies_in_all_funds(CompanyValues, category_output.total_funds)) = 2

\* the sequences that hold the elements of seq in another order
Reorderings(seq) ==
    {[i \in 1..Len(seq) |-> seq[order[i]]] :
        order \in {f \in [1..Len(seq) -> 1..Len(seq)] :
                      \A i, j \in 1..Len(seq) : f[i] = f[j] => i = j}}

CompanyNamesOf(companies) == [i \in 1..Len(companies) |-> companies[i].name]

\* the report of _process_single_category for processed funds
ReportOf(funds) ==
    build_category_output(aggregate_holdings(funds, params.max_sample_funds_per_company),
                          params.max_companies_in_results)

\* C27: the three orderings of a report name the same companies in the same
\* order whatever the order in which the processed funds were supplied.
OrderingsIgnoreFundOrder ==
    Built =>
        \A funds \in Reorderings(processed_funds) :
            LET report == ReportOf(funds)
            IN /\ CompanyNamesOf(report.top_by_fund_count)
                     = CompanyNamesOf(category_output.top_by_fund_count)
               /\ CompanyNamesOf(report.top_by_total_weight)
                     = CompanyNamesOf(category_output.top_by_total_weight)
               /\ CompanyNamesOf(report.common_in_all_funds)
                     = CompanyNamesOf(category_output.common_in_all_funds)

\* what _update_summary adds to total_funds of the run summary for the
\* category
FundsAddedToSummary ==
    update_summary(initialize_summary(<< >>), processed_funds, category_output).total_funds

\* C29: total_funds of a category report is the number of funds processed
\* for the category, which is what the run summary's total_funds grows by,
\* also when two of the funds have the same name.
ReportTotalFundsIsProcessedFunds ==
    Built =>
        /\ category_output.total_funds = Len(processed_funds)
        /\ category_output.total_funds = FundsAddedToSummary

----------------------------------------------------------------------------
(* Properties of the run *)

IsFetch(event) == event[1] = "fetch"

FetchEvents == SelectSeq(events, IsFetch)

\* the fetch step of the analysis being run is over
FetchStepOver == pc \in {"analyze", "process_categories", "analysis_done"}

HoldingsReportPath(category) ==
    generate_analysis_output_path(config, category, "holdings", AnalysisDate)

ReportWriteFailed(category) ==
    \E i \in 1..Len(events) :
        events[i][1] = "write_report" /\ events[i][2] = category /\ events[i][3] = FALSE

\* the turns of the loop of _process_all_categories that are over
PassedCategories == {k \in 1..Len(loaded_data) : k < cat_pos}

\* C3: a failure to write one category's report is contained: the run does
\* not fail, and once the loop is over every other category with documents
\* has its report on disk.
CategoryFailureIsContained ==
    \A k \in 1..Len(loaded_data) :
        ReportWriteFailed(loaded_data[k].category) =>
            /\ pc # "raised"
            /\ error = None
            /\ cat_pos > Len(loaded_data) =>
                  \A j \in 1..Len(loaded_data) :
                      (j # k /\ loaded_data[j].docs # << >>) =>
                          HoldingsReportPath(loaded_data[j].category) \in DOMAIN reports

\* what _process_single_fund makes of each document the fund pages serve
NormalizedDocument ==
    [doc \in {DocOf(url) : url \in 1..(NumCategories * UrlsPerCategory + NumPortfolioFunds)}
        |-> process_single_fund(doc, ExcludedHoldings)]

\* process_fund_jsons keeps none of the documents
NoUsableDocument(docs) == \A j \in 1..Len(docs) : NormalizedDocument[docs[j]] = None

\* C4 as stated: a category with no usable raw document gets the empty
\* report (zero funds, zero companies) once the loop has passed it.
EmptyCategoryGetsEmptyReport ==
    \A k \in PassedCategories :
        NoUsableDocument(loaded_data[k].docs) =>
            /\ HoldingsReportPath(loaded_data[k].category) \in DOMAIN reports
            /\ reports[HoldingsReportPath(loaded_data[k].category)].total_funds = 0
            /\ reports[HoldingsReportPath(loaded_data[k].category)].unique_companies = 0

\* the AnalysisResult of the holdings analysis, or its output_paths and
\* summary so far while it runs
HoldingsResult ==
    LET IsHoldings(result) == result.analysis_type = "holdings"
        done == SelectSeq(results, IsHoldings)
    IN IF done # << >> THEN [output_paths |-> done[1].output_paths,
                             summary |-> done[1].summary]
                       ELSE [output_paths |-> output_paths, summary |-> summary]

\* the report on disk at the path is the empty report
IsEmptyReportAt(path) ==
    /\ path \in DOMAIN reports
    /\ reports[path].total_funds = 0
    /\ reports[path].unique_companies = 0
    /\ reports[path].funds = << >>

\* C4 amended: a category for which no raw document could be loaded is
\* skipped: no report is written for it, it is not counted as processed, no
\* error arises from it and the loop goes on.  A category whose loaded
\* documents yield no usable fund gets the empty report.
EmptyCategorySkippedOrEmptyReport ==
    /\ \A k \in PassedCategories :
          LET docs == loaded_data[k].docs
              path == HoldingsReportPath(loaded_data[k].category)
          IN /\ docs = << >> =>
                    /\ path \notin DOMAIN reports
                    /\ path \notin SeqRange(HoldingsResult.output_paths)
             /\ (docs # << >> /\ NoUsableDocument(docs)) => IsEmptyReportAt(path)
    /\ (pc = "raised" /\ cat_pos \in 1..Len(loaded_data)) => loaded_data[cat_pos].docs # << >>
    /\ loaded_data # << >> =>
          HoldingsResult.summary.categories_processed =
              Cardinality({k \in PassedCategories : loaded_data[k].docs # << >>})

\* C4 witness: the run has returned after skipping a category without
\* documents and writing the report of a later category.
EmptyCategoryWitness ==
    /\ pc = "returned"
    /\ \E k, j \in 1..Len(loaded_data) :
          /\ k < j
          /\ loaded_data[k].docs = << >>
          /\ loaded_data[j].docs # << >>
          /\ HoldingsReportPath(loaded_data[j].category) \in DOMAIN reports
          /\ HoldingsReportPath(loaded_data[k].category) \notin DOMAIN reports

UrlCategory(url) ==
    LET plan == FetchPlan(requirements)
    IN plan[CHOOSE g \in 1..Len(plan) : url \in SeqRange(plan[g].urls)].category

\* C5: a failed fetch of one URL stays inside the fetch step: no exception
\* leaves it, every URL of every category is still fetched, in order, and
\* the document of every URL fetched with success is on disk.
FetchFailureIsContained ==
    /\ (events # << >> /\ Last(events)[1] = "fetch" /\ Last(events)[3] = "failed")
          => pc \in {"scrape", "analyze"} /\ error = None
    /\ FetchStepOver =>
          LET planned == Flatten([g \in 1..Len(FetchPlan(requirements)) |->
                                     FetchPlan(requirements)[g].urls])
              PlannedFetch(event) == IsFetch(event) /\ event[2] \in SeqRange(planned)
              fetched == SelectSeq(events, PlannedFetch)
          IN /\ [i \in 1..Len(fetched) |-> fetched[i][2]] = planned
             /\ \A i \in 1..Len(fetched) :
                   fetched[i][3] = "success" <=>
                       SavePath(config, requirements, UrlCategory(fetched[i][2]),
                                fetched[i][2]) \in scraped_files

\* C5 witness: the fetch step is over after the first URL of the first
\* category failed and the one after it and one of a later category were
\* fetched with success.
FetchFailureWitness ==
    /\ pc = "analyze"
    /\ Len(FetchEvents) = NumCategories * UrlsPerCategory
    /\ FetchEvents[1][3] = "failed"
    /\ FetchEvents[2][3] = "success"
    /\ FetchEvents[Len(FetchEvents)][3] = "success"

RequestedNotEnabled ==
    /\ request.analysis_type # None
    /\ \/ Value(request.analysis_type) \notin DOMAIN config.analyses
       \/ ~config.analyses[Value(request.analysis_type)].enabled

RequestedUnknownType ==
    /\ request.analysis_type # None
    /\ Value(request.analysis_type) \in DOMAIN config.analyses
    /\ config.analyses[Value(request.analysis_type)].enabled
    /\ config.analyses[Value(request.analysis_type)].type \notin RegisteredAnalyzers

\* C6: a run requested for an analysis that is not configured, is disabled
\* or has an unregistered type ends with an OrchestrationError and does no
\* I/O: nothing is fetched, read or written.
UnknownOrDisabledAborts ==
    (RequestedNotEnabled \/ RequestedUnknownType) =>
        /\ events = << >>
        /\ scraped_files = {}
        /\ reports = << >>
        /\ pc \in {"run_analysis", "run_single_analysis", "raised"}
        /\ RequestedNotEnabled => executed = << >>
        /\ pc = "raised" => error # None /\ Value(error).type = "OrchestrationError"

\* C6 witness: the run requested for a disabled analysis has raised.
UnknownOrDisabledWitness ==
    /\ pc = "raised"
    /\ request.analysis_type = Some("holdings")
    /\ ~config.analyses["holdings"].enabled
    /\ Value(error).context = Some([analysis_type |-> "holdings"])

\* C7: when all enabled analyses are run, a failure that is not one of the
\* configuration (here a report that cannot be written) does not stop the
\* run: every enabled analysis is still executed.
RemainingAnalysesStillRun ==
    (/\ request.analysis_type = None
     /\ pc = "raised"
     /\ Value(error).cause = "JsonStorageError")
        => \A analysis_id \in SeqRange(get_enabled_analyses(config)) :
              analysis_id \in SeqRange(executed)

\* the exceptions _run_single_analysis lets through as they are
PassedThrough == {"OrchestrationError", "AnalysisError"}

\* an exception of a component has left the run
UnexpectedErrorRaised ==
    /\ pc = "raised"
    /\ error # None
    /\ Value(error).cause \notin PassedThrough
    /\ Value(error).cause # "not found or not enabled"

\* C21: an unexpected exception of a component reaches the caller as an
\* OrchestrationError whose context carries the analysis id and the category
\* being processed.
UnexpectedErrorCarriesContext ==
    UnexpectedErrorRaised
        => /\ Value(error).type = "OrchestrationError"
           /\ Value(error).context # None
           /\ "analysis_type" \in DOMAIN Value(Value(error).context)
           /\ "category" \in DOMAIN Value(Value(error).context)

\* {baseDir}/{YYYYMMDD}/{analysisType}/{category}.json of a configured
\* category of the holdings analysis
IsCategoryReportPath(path) ==
    /\ path.dir = <<config.paths.analysis_dir, AnalysisDate, "holdings">>
    /\ \E ci \in 1..Len(HoldingsCategories) : path.file = HoldingsCategories[ci].category

\* {baseDir}/{YYYYMMDD}/{analysisType}.json of the portfolio analysis, the
\* analysis named by its id or by its type
IsFlatReportPath(path) ==
    /\ path.dir = <<config.paths.analysis_dir, AnalysisDate>>
    /\ path.file \in {"portfolio", "portfolio-composition"}

\* C24: every report is written at {baseDir}/{YYYYMMDD}/{analysisType}/
\* {category}.json when it is the report of a category of the holdings
\* analysis and at {baseDir}/{YYYYMMDD}/{analysisType}.json when it is the
\* report of the portfolio analysis.
ReportsAtSpecifiedPaths ==
    \A path \in DOMAIN reports :
        IF "funds" \in DOMAIN reports[path] /\ "total_funds" \notin DOMAIN reports[path]
           THEN IsFlatReportPath(path)
           ELSE IsCategoryReportPath(path)

\* C25: when a positive delay is configured, a delay occurs between every two
\* successive fetches of a run, whether the earlier one succeeded or failed.
DelayBetweenSuccessiveFetches ==
    (config # None /\ config.scraping.delay_between_requests > 0) =>
        \A a \in 1..Len(events) : \A b \in (a + 1)..Len(events) :
            (IsFetch(events[a]) /\ IsFetch(events[b]))
                => \E k \in (a + 1)..(b - 1) : events[k][1] = "sleep"

\* the same for the fetches of the API coordinator in the first analysis of
\* a run
DelayBetweenApiFetches ==
    (/\ config # None
     /\ config.scraping.delay_between_requests > 0
     /\ requirements # None
     /\ requirements.strategy = "api_scraping"
     /\ Len(executed) = 1)
        => \A a \in 1..Len(events) : \A b \in (a + 1)..Len(events) :
              (IsFetch(events[a]) /\ IsFetch(events[b]))
                  => \E k \in (a + 1)..(b - 1) : events[k][1] = "sleep"

HoldingsResults == {k \in 1..Len(results) : results[k].analysis_type = "holdings"}

\* C26: at the end of a holdings run categories_processed of the summary is
\* the number of output paths, each the path of a report that was written,
\* and is at most total_categories.
SummaryCountsPersistedReports ==
    \A k \in HoldingsResults :
        /\ results[k].summary.categories_processed = Len(results[k].output_paths)
        /\ \A j \in 1..Len(results[k].output_paths) :
              results[k].output_paths[j] \in DOMAIN reports
        /\ Cardinality(SeqRange(results[k].output_paths)) = Len(results[k].output_paths)
        /\ results[k].summary.categories_processed <= results[k].summary.total_categories

\* a holdings run has ended with one category skipped and one processed
SummaryCountsWitness ==
    \E k \in HoldingsResults :
        /\ results[k].summary.total_categories = NumCategories
        /\ results[k].summary.categories_processed = 1
        /\ Len(results[k].output_paths) = 1

\* the paths the fetch step hands to the analyzer
HandedPaths ==
    Flatten([k \in 1..Len(scraped_data_info.file_paths) |->
                scraped_data_info.file_paths[k].paths])

\* C28: every file path the fetch step hands to the analyzer is the path of a
\* document that was fetched and saved in this run: a URL whose fetch failed
\* contributes no path.
HandedPathsWereSaved ==
    pc = "analyze" =>
        /\ \A j \in 1..Len(HandedPaths) : HandedPaths[j] \in scraped_files
        /\ \A k \in 1..Len(events) :
              (IsFetch(events[k]) /\ events[k][3] = "failed")
                  => \A j \in 1..Len(HandedPaths) : HandedPaths[j].file # events[k][2]

\* an analysis-only run is over, and not for a report that could not be
\* written
AnalysisOnlyRunOver ==
    /\ request.analysis_only
    /\ pc \in {"returned", "raised"}
    /\ ~(pc = "raised" /\ Value(error).cause = "JsonStorageError")

\* the documents the earlier fetch saved for the analysis being run
SavedDocuments ==
    {path \in scraped_files :
        \E g \in 1..Len(FetchPlan(requirements)) :
            \E k \in 1..Len(FetchPlan(requirements)[g].urls) :
                path = SavePath(config, requirements, FetchPlan(requirements)[g].category,
                                FetchPlan(requirements)[g].urls[k])}

\* C30: in analysis-only mode the documents an earlier fetch of the same date
\* saved are handed to the analyzer, whatever the scraping strategy, and the
\* run writes the reports the fetching run wrote.
AnalysisOnlyReproducesReports ==
    /\ (request.analysis_only /\ pc = "analyze")
          => SavedDocuments \subseteq SeqRange(HandedPaths)
    /\ AnalysisOnlyRunOver => (pc = "returned" /\ reports = fetched_reports)

----------------------------------------------------------------------------
(* Properties of the text functions *)

\* C14: company-name normalization is idempotent: normalizing the result of a
\* normalization gives that result again.
NormalizationIsIdempotent ==
    Len(name_results) = 2 => name_results[2] = name_results[1]

\* stripping the suffixes and the trailing dots and spaces leaves nothing
StrippingYieldsEmpty(name) ==
    Strip(StripTrailingDotsSpaces(ApplySuffixPatterns(Strip(name), SUFFIX_PATTERNS))) = << >>

\* C15: when stripping suffixes and trailing punctuation yields the empty text,
\* normalization returns the input with its leading and trailing whitespace
\* removed.
ErasedNameIsTrimmedInput ==
    (Len(name_results) >= 1 /\ StrippingYieldsEmpty(raw_text))
        => name_results[1] = Strip(raw_text)

HasDigit(str) == \E i \in 1..Len(str) : str[i] \in SeqRange(Digits)

\* C16: every parser returns a number on every text and never raises, and a
\* text holding no number gives 0.
ParsersAreTotal ==
    parse_result # None =>
        /\ ~Value(parse_result).raised
        /\ ~HasDigit(raw_text) => Value(parse_result).value = 0

----------------------------------------------------------------------------
(* Properties of the data processors *)

ExcludeFromAnalysis == params.exclude_from_analysis

\* the name contains an exclusion entry, whatever the case of the letters
MatchesExclusion(company_name) ==
    \E excluded \in ExcludeFromAnalysis : Contains(Upper(company_name), Upper(excluded))

\* the company names of the three orderings of a category report
ReportedCompanies(output) ==
    {output.top_by_fund_count[i].name : i \in 1..Len(output.top_by_fund_count)}
        \cup {output.top_by_total_weight[i].name : i \in 1..Len(output.top_by_total_weight)}
        \cup {output.common_in_all_funds[i].name : i \in 1..Len(output.common_in_all_funds)}

HoldingsModeExcludes ==
    /\ \A k \in 1..Len(processed_funds) : \A j \in 1..Len(processed_funds[k].holdings) :
          ~MatchesExclusion(processed_funds[k].holdings[j].company_name)
    /\ category_output # None =>
          \A company_name \in ReportedCompanies(category_output) :
              ~MatchesExclusion(company_name)

PortfolioModeExcludes ==
    portfolio_output # None =>
        /\ \A i \in 1..Len(Value(portfolio_output).company_allocations) :
              ~MatchesExclusion(Value(portfolio_output).company_allocations[i].company_name)
        /\ \A i \in 1..Len(Value(portfolio_output).top_companies) :
              ~MatchesExclusion(Value(portfolio_output).top_companies[i].company_name)

\* C17: in either mode, no holding whose normalized company name contains an
\* exclusion entry as a case-insensitive substring is left in the normalized
\* funds or in a report built from them.
ExcludedHoldingsAreDropped == HoldingsModeExcludes /\ PortfolioModeExcludes

\* the entry of top_holdings is excluded, unnamed or of non-positive weight
IsUnusableHolding(holding_data) ==
    /\ IsObject(holding_data)
    /\ \/ MatchesExclusion(Strip(holding_data.company_name))
       \/ Strip(holding_data.company_name) = << >>
       \/ parse_percentage(holding_data.allocation_percentage) <= 0

HasNoUsableHolding(fund_json) ==
    \A j \in 1..Len(fund_json.data.top_holdings) :
        IsUnusableHolding(fund_json.data.top_holdings[j])

\* the documents of the list that have a holding which is not unusable
DocumentsWithHoldings ==
    {i \in 1..Len(raw_documents) : ~HasNoUsableHolding(raw_documents[i])}

\* C18: in holdings mode a document whose holdings are all excluded, unnamed or
\* of non-positive weight gives no processed fund: every processed fund has a
\* holding and comes from another document, and the report counts no more
\* funds than there are such other documents.
UnusableDocumentIsSkipped ==
    stage # "loaded" =>
        /\ \A k \in 1..Len(processed_funds) : processed_funds[k].holdings # << >>
        /\ Len(processed_funds) <= Cardinality(DocumentsWithHoldings)
        /\ \A k \in 1..Len(processed_funds) : \E i \in DocumentsWithHoldings :
              Some(processed_funds[k].name) = raw_documents[i].data.fund_info.fund_name
        /\ category_output # None =>
              category_output.total_funds <= Cardinality(DocumentsWithHoldings)

\* a list with a document of unusable holdings only and a usable one, its
\* report built
UnusableDocumentWitness ==
    /\ stage = "built"
    /\ \E i \in 1..Len(raw_documents) : HasNoUsableHolding(raw_documents[i])
    /\ Len(processed_funds) = 1
    /\ Len(raw_documents) = 2
    /\ category_output.total_funds = 1

\* C19: an error in one document neither leaves the call nor stops the
\* processing of the other documents: the call returns, with the normalized
\* form of every usable document in input order.
DocumentErrorIsContained ==
    /\ stage # "loaded" =>
          processed_funds =
              LET Usable(fund_json) == process_single_fund(fund_json, ExcludeFromAnalysis) # None
                  usable == SelectSeq(raw_documents, Usable)
              IN [k \in 1..Len(usable) |->
                     Value(process_single_fund(usable[k], ExcludeFromAnalysis))]
    /\ portfolio_funds # None => ~Value(portfolio_funds).raised

Abs(x) == IF x < 0 THEN -x ELSE x

\* what PortfolioAnalyzer.analyze hands to build_output
PortfolioAggregation ==
    aggregate_portfolio(Value(portfolio_funds).value, params.exclude_from_analysis)

\* percentage, in hundredths of a percent, is a hundredth nearest to
\* amount / total_value * 100
IsRoundedShare(percentage, amount, total_value) ==
    2 * Abs(percentage * AmountsPerHundredth * total_value - amount)
        <= AmountsPerHundredth * total_value

PercentageSum(allocations) ==
    SumSeq([i \in 1..Len(allocations) |-> allocations[i].percentage])

AmountSum(company_amounts) ==
    SumSeq([i \in 1..Len(company_amounts) |-> company_amounts[i].amount])

\* C23 as stated: in a portfolio report of total_value > 0 the percentages of
\* company_allocations sum to 100.0, within a hundredth for each entry.
PercentagesSumToHundred ==
    (portfolio_output # None /\ PortfolioAggregation.total_value > 0) =>
        LET allocations == Value(portfolio_output).company_allocations
        IN Abs(PercentageSum(allocations) - 10000) <= Len(allocations)

\* the share of total_value that the amounts of the companies make up, in
\* hundredths of a percent
AllocatedShare(company_amounts, total_value) ==
    RoundHalfEven(AmountSum(company_amounts), AmountsPerHundredth * total_value)

\* C23: in a portfolio report of total_value > 0 the percentages of
\* company_allocations sum, within half a hundredth for each entry and for
\* the share itself, to the share of total_value that the amounts of the
\* entries make up.
PercentagesSumToAllocatedShare ==
    (portfolio_output # None /\ PortfolioAggregation.total_value > 0) =>
        LET allocations == Value(portfolio_output).company_allocations
        IN Abs(PercentageSum(allocations)
               - AllocatedShare(PortfolioAggregation.company_amounts,
                                PortfolioAggregation.total_value))
              <= (Len(allocations) + 1) \div 2

\* a report of two funds and two companies whose amounts are less than
\* total_value
AllocatedShareWitness ==
    /\ portfolio_output # None
    /\ PortfolioAggregation.total_value > 0
    /\ Value(portfolio_output).portfolio_summary.fund_count = 2
    /\ Len(Value(portfolio_output).company_allocations) = 2
    /\ PercentageSum(Value(portfolio_output).company_allocations) \in 1..9000

----------------------------------------------------------------------------
(* Properties of get_data_requirements *)

\* C20: the urls of a DataRequirement are deduplicated and sorted: each URL is
\* smaller than the one after it.
RequirementUrlsSortedAndDistinct ==
    (pc = "requirements") =>
        \A k \in 1..(Len(requirements.urls) - 1) :
            requirements.urls[k] < requirements.urls[k + 1]

====
